---- MODULE Spec2Model ----
(***************************************************************************)
(* A model of the quality scorer of garbage-code-hunter (src/scoring.rs). *)
(*                                                                         *)
(* f64 values are modelled as exact rationals <<n, d>> in lowest terms     *)
(* with d > 0.  Every constant of the scorer (thresholds, weights, band    *)
(* offsets) is a short decimal, and the f64 sum of the seven category      *)
(* weights is exactly 1.0, so the branch taken by every comparison of the  *)
(* code is the one the exact value takes on the inputs explored here.      *)
(***************************************************************************)
EXTENDS Integers, Sequences, FiniteSets, TLC

(***************************************************************************)
(* Bounds of the exploration.                                              *)
(***************************************************************************)
MaxIssues == 2
MaxFiles == 1
MaxCount == 12
MaxSmallLines == 2
MaxHundreds == 30
MaxRepeatIssues == 2

(***************************************************************************)
(* Exact rational arithmetic standing for f64.                             *)
(***************************************************************************)
RECURSIVE GCD(_, _)
GCD(a, b) == IF b = 0 THEN a ELSE GCD(b, a % b)

Abs(x) == IF x < 0 THEN -x ELSE x

Norm(n, d) ==
    LET g == GCD(Abs(n), Abs(d))
        s == IF d < 0 THEN -1 ELSE 1
    IN  <<(s * n) \div g, (s * d) \div g>>

Rat(n) == <<n, 1>>
Frac(n, d) == Norm(n, d)

RAdd(a, b) == Norm(a[1] * b[2] + b[1] * a[2], a[2] * b[2])
RSub(a, b) == Norm(a[1] * b[2] - b[1] * a[2], a[2] * b[2])
RMul(a, b) == Norm(a[1] * b[1], a[2] * b[2])
RDiv(a, b) == Norm(a[1] * b[2], a[2] * b[1])
RLe(a, b) == a[1] * b[2] <= b[1] * a[2]
RLt(a, b) == a[1] * b[2] < b[1] * a[2]
RMin(a, b) == IF RLe(a, b) THEN a ELSE b

\* `x as u32` for a finite f64: truncation toward zero, saturating at 0.
AsU32(a) == IF a[1] < 0 THEN 0 ELSE a[1] \div a[2]

(***************************************************************************)
(* Severity and QualityLevel.                                              *)
(***************************************************************************)
Severity == {"Mild", "Spicy", "Nuclear"}

QualityLevel == {"Excellent", "Good", "Average", "Poor", "Terrible"}

\* the score rounded to the nearest integer, not truncated
from_score_Rounded(score) ==
    LET s == AsU32(RAdd(score, Frac(1, 2)))
    IN  IF s <= 20 THEN "Excellent"
        ELSE IF s <= 40 THEN "Good"
        ELSE IF s <= 60 THEN "Average"
        ELSE IF s <= 80 THEN "Poor"
        ELSE "Terrible"

from_score(score) ==
    LET s == AsU32(score)
    IN  IF s <= 20 THEN "Excellent"
        ELSE IF s <= 40 THEN "Good"
        ELSE IF s <= 60 THEN "Average"
        ELSE IF s <= 80 THEN "Poor"
        ELSE "Terrible"

(***************************************************************************)
(* CodeScorer::new: the two weight tables held by a scorer.                *)
(***************************************************************************)
CodeScorer_new ==
    [rule_weights |->
        [r \in {"terrible-naming", "single-letter-variable", "deep-nesting",
                "long-function", "cyclomatic-complexity", "code-duplication",
                "unwrap-abuse", "unnecessary-clone", "complex-closure",
                "lifetime-abuse", "trait-complexity", "generic-abuse",
                "channel-abuse", "async-abuse", "dyn-trait-abuse",
                "unsafe-abuse", "ffi-abuse", "macro-abuse",
                "module-complexity", "pattern-matching-abuse",
                "reference-abuse", "box-abuse", "slice-abuse"} |->
            CASE r = "terrible-naming" -> Frac(2, 10)
              [] r = "single-letter-variable" -> Frac(15, 10)
              [] r = "long-function" -> Frac(25, 10)
              [] r = "cyclomatic-complexity" -> Frac(35, 10)
              [] r \in {"code-duplication", "unwrap-abuse", "channel-abuse",
                        "async-abuse", "dyn-trait-abuse", "slice-abuse"} -> Frac(4, 10)
              [] r \in {"lifetime-abuse", "trait-complexity", "generic-abuse"} -> Frac(35, 100)
              [] r = "unsafe-abuse" -> Frac(5, 10)
              [] r \in {"ffi-abuse", "macro-abuse"} -> Frac(6, 10)
              [] OTHER -> Frac(3, 10)],
     severity_weights |->
        [s \in Severity |->
            CASE s = "Nuclear" -> Rat(10)
              [] s = "Spicy" -> Rat(5)
              [] s = "Mild" -> Rat(2)]]

(***************************************************************************)
(* The category table of calculate_normalized_category_scores, in order.   *)
(***************************************************************************)
categories ==
    << [name |-> "naming", rules |-> {"terrible-naming", "single-letter-variable"}],
       [name |-> "complexity", rules |-> {"deep-nesting", "long-function", "cyclomatic-complexity"}],
       [name |-> "duplication", rules |-> {"code-duplication"}],
       [name |-> "rust-basics", rules |-> {"unwrap-abuse", "unnecessary-clone"}],
       [name |-> "advanced-rust", rules |-> {"complex-closure", "lifetime-abuse",
                                              "trait-complexity", "generic-abuse"}],
       [name |-> "rust-features", rules |-> {"channel-abuse", "async-abuse", "dyn-trait-abuse",
                                              "unsafe-abuse", "ffi-abuse", "macro-abuse"}],
       [name |-> "structure", rules |-> {"module-complexity", "pattern-matching-abuse",
                                          "reference-abuse", "box-abuse", "slice-abuse"}] >>

CategoryNames == {categories[i].name : i \in DOMAIN categories}

\* The weights array of calculate_weighted_final_score, in order.
weights ==
    << <<"naming", Frac(25, 100)>>,
       <<"complexity", Frac(20, 100)>>,
       <<"duplication", Frac(15, 100)>>,
       <<"rust-basics", Frac(15, 100)>>,
       <<"advanced-rust", Frac(10, 100)>>,
       <<"rust-features", Frac(10, 100)>>,
       <<"structure", Frac(5, 100)>> >>

(***************************************************************************)
(* HashMap helpers: entry(k).or_insert(0) += 1 and get(k).unwrap_or(d).    *)
(***************************************************************************)
EmptyMap == [k \in {} |-> 0]

MapInc(m, key) ==
    IF key \in DOMAIN m
    THEN [m EXCEPT ![key] = @ + 1]
    ELSE [k \in DOMAIN m \cup {key} |-> IF k = key THEN 1 ELSE m[k]]

MapGetOr(m, key, dflt) == IF key \in DOMAIN m THEN m[key] ELSE dflt

MapInsert(m, key, val) == [k \in DOMAIN m \cup {key} |-> IF k = key THEN val ELSE m[k]]

(***************************************************************************)
(* calculate_severity_distribution                                         *)
(***************************************************************************)
calculate_severity_distribution(issues) ==
    [nuclear |-> Cardinality({i \in DOMAIN issues : issues[i].severity = "Nuclear"}),
     spicy   |-> Cardinality({i \in DOMAIN issues : issues[i].severity = "Spicy"}),
     mild    |-> Cardinality({i \in DOMAIN issues : issues[i].severity = "Mild"})]

(***************************************************************************)
(* calculate_normalized_category_scores: the counting loop.                *)
(***************************************************************************)
\* The inner loop: every category whose rule list contains the rule name is
\* incremented.
RECURSIVE count_in_categories(_, _, _)
count_in_categories(counts, rule_name, i) ==
    IF i > Len(categories) THEN counts
    ELSE count_in_categories(
            IF rule_name \in categories[i].rules
            THEN MapInc(counts, categories[i].name)
            ELSE counts,
            rule_name, i + 1)

IsMapped(rule_name) == \E i \in DOMAIN categories : rule_name \in categories[i].rules

\* A counting loop that stops at the first issue whose rule has no category.
RECURSIVE count_issues_StopAtUnmapped(_, _, _)
count_issues_StopAtUnmapped(counts, issues, k) ==
    IF k > Len(issues) \/ ~IsMapped(issues[k].rule_name) THEN counts
    ELSE count_issues_StopAtUnmapped(
            count_in_categories(counts, issues[k].rule_name, 1), issues, k + 1)

\* A counting loop in which a Nuclear issue counts twice.
RECURSIVE count_issues_NuclearTwice(_, _, _)
count_issues_NuclearTwice(counts, issues, k) ==
    IF k > Len(issues) THEN counts
    ELSE count_issues_NuclearTwice(
            IF issues[k].severity = "Nuclear"
            THEN count_in_categories(count_in_categories(counts, issues[k].rule_name, 1),
                                     issues[k].rule_name, 1)
            ELSE count_in_categories(counts, issues[k].rule_name, 1),
            issues, k + 1)

\* The outer loop over the issues, from issue k on.
RECURSIVE count_issues(_, _, _)
count_issues(counts, issues, k) ==
    IF k > Len(issues) THEN counts
    ELSE count_issues(count_in_categories(counts, issues[k].rule_name, 1), issues, k + 1)

(***************************************************************************)
(* calculate_category_score                                                *)
(***************************************************************************)
issues_per_1k_lines(issue_count, total_lines) ==
    RMul(RDiv(Rat(issue_count), Rat(total_lines)), Rat(1000))

\* thresholds with the naming row replaced by the complexity row
thresholds_NamingAsComplexity(category) ==
    CASE category \in {"duplication", "advanced-rust"} -> <<Rat(0), Frac(1, 2), Rat(2), Rat(4)>>
      [] category = "rust-features" -> <<Rat(0), Frac(1, 2), Frac(3, 2), Rat(3)>>
      [] OTHER -> <<Rat(0), Rat(1), Rat(3), Rat(6)>>

\* (excellent, good, average, poor) of a category
thresholds(category) ==
    CASE category = "naming" -> <<Rat(0), Rat(2), Rat(5), Rat(10)>>
      [] category = "complexity" -> <<Rat(0), Rat(1), Rat(3), Rat(6)>>
      [] category = "duplication" -> <<Rat(0), Frac(1, 2), Rat(2), Rat(4)>>
      [] category = "rust-basics" -> <<Rat(0), Rat(1), Rat(3), Rat(6)>>
      [] category = "advanced-rust" -> <<Rat(0), Frac(1, 2), Rat(2), Rat(4)>>
      [] category = "rust-features" -> <<Rat(0), Frac(1, 2), Frac(3, 2), Rat(3)>>
      [] category = "structure" -> <<Rat(0), Rat(1), Rat(3), Rat(6)>>
      [] OTHER -> <<Rat(0), Rat(1), Rat(3), Rat(6)>>

\* band_score without the cap of the last branch
band_score_NoCap(d, th) ==
    IF RLe(d, th[1]) THEN Rat(0)
    ELSE IF RLe(d, th[2])
    THEN RMul(RDiv(RSub(d, th[1]), RSub(th[2], th[1])), Rat(20))
    ELSE IF RLe(d, th[3])
    THEN RAdd(Rat(20), RMul(RDiv(RSub(d, th[2]), RSub(th[3], th[2])), Rat(20)))
    ELSE IF RLe(d, th[4])
    THEN RAdd(Rat(40), RMul(RDiv(RSub(d, th[3]), RSub(th[4], th[3])), Rat(20)))
    ELSE RAdd(Rat(60), RMul(RSub(d, th[4]), Rat(2)))

\* band_score whose average..poor band starts at 20 instead of 40
band_score_PoorBandFrom20(d, th) ==
    IF RLe(d, th[1]) THEN Rat(0)
    ELSE IF RLe(d, th[2])
    THEN RMul(RDiv(RSub(d, th[1]), RSub(th[2], th[1])), Rat(20))
    ELSE IF RLe(d, th[3])
    THEN RAdd(Rat(20), RMul(RDiv(RSub(d, th[2]), RSub(th[3], th[2])), Rat(20)))
    ELSE IF RLe(d, th[4])
    THEN RAdd(Rat(20), RMul(RDiv(RSub(d, th[3]), RSub(th[4], th[3])), Rat(20)))
    ELSE RMin(RAdd(Rat(60), RMul(RSub(d, th[4]), Rat(2))), Rat(90))

\* The piecewise-linear score of density d under thresholds th.
band_score(d, th) ==
    IF RLe(d, th[1]) THEN Rat(0)
    ELSE IF RLe(d, th[2])
    THEN RMul(RDiv(RSub(d, th[1]), RSub(th[2], th[1])), Rat(20))
    ELSE IF RLe(d, th[3])
    THEN RAdd(Rat(20), RMul(RDiv(RSub(d, th[2]), RSub(th[3], th[2])), Rat(20)))
    ELSE IF RLe(d, th[4])
    THEN RAdd(Rat(40), RMul(RDiv(RSub(d, th[3]), RSub(th[4], th[3])), Rat(20)))
    ELSE RMin(RAdd(Rat(60), RMul(RSub(d, th[4]), Rat(2))), Rat(90))

\* calculate_category_score without the total_lines == 0 return: the f64
\* quotient is NaN or infinite, every comparison with it is false, and
\* f64::min(NaN or inf, 90.0) is 90.
calculate_category_score_NoZeroGuard(issue_count, total_lines, category) ==
    IF total_lines = 0 THEN Rat(90)
    ELSE band_score(issues_per_1k_lines(issue_count, total_lines), thresholds(category))

calculate_category_score(issue_count, total_lines, category) ==
    IF total_lines = 0 THEN Rat(0)
    ELSE band_score(issues_per_1k_lines(issue_count, total_lines), thresholds(category))

\* The second loop: one score per category of the table.
RECURSIVE score_categories(_, _, _, _)
score_categories(category_scores, category_counts, total_lines, i) ==
    IF i > Len(categories) THEN category_scores
    ELSE score_categories(
            MapInsert(category_scores, categories[i].name,
                      calculate_category_score(
                          MapGetOr(category_counts, categories[i].name, 0),
                          total_lines, categories[i].name)),
            category_counts, total_lines, i + 1)

\* The second loop, inserting a score only for a category that has findings.
RECURSIVE score_categories_OnlyCounted(_, _, _, _)
score_categories_OnlyCounted(category_scores, category_counts, total_lines, i) ==
    IF i > Len(categories) THEN category_scores
    ELSE score_categories_OnlyCounted(
            IF categories[i].name \in DOMAIN category_counts
            THEN MapInsert(category_scores, categories[i].name,
                      calculate_category_score(
                          category_counts[categories[i].name],
                          total_lines, categories[i].name))
            ELSE category_scores,
            category_counts, total_lines, i + 1)

calculate_normalized_category_scores_OnlyCounted(issues, total_lines) ==
    score_categories_OnlyCounted(EmptyMap, count_issues(EmptyMap, issues, 1), total_lines, 1)

calculate_normalized_category_scores(issues, total_lines) ==
    score_categories(EmptyMap, count_issues(EmptyMap, issues, 1), total_lines, 1)

(***************************************************************************)
(* calculate_weighted_final_score                                          *)
(***************************************************************************)
\* The sum of the scores, the `* weight` forgotten.
RECURSIVE weigh_NoWeight(_, _, _)
weigh_NoWeight(acc, category_scores, i) ==
    IF i > Len(weights) THEN acc
    ELSE weigh_NoWeight(
            IF weights[i][1] \in DOMAIN category_scores
            THEN <<RAdd(acc[1], category_scores[weights[i][1]]),
                   RAdd(acc[2], weights[i][2])>>
            ELSE acc,
            category_scores, i + 1)

\* total_weight taking only the categories whose score is above zero.
RECURSIVE weigh_NonZeroOnly(_, _, _)
weigh_NonZeroOnly(acc, category_scores, i) ==
    IF i > Len(weights) THEN acc
    ELSE weigh_NonZeroOnly(
            IF weights[i][1] \in DOMAIN category_scores
            THEN <<RAdd(acc[1], RMul(category_scores[weights[i][1]], weights[i][2])),
                   IF RLt(Rat(0), category_scores[weights[i][1]])
                   THEN RAdd(acc[2], weights[i][2]) ELSE acc[2]>>
            ELSE acc,
            category_scores, i + 1)

\* <<weighted_sum, total_weight>> after the loop over weights[i..].
RECURSIVE weigh(_, _, _)
weigh(acc, category_scores, i) ==
    IF i > Len(weights) THEN acc
    ELSE weigh(
            IF weights[i][1] \in DOMAIN category_scores
            THEN <<RAdd(acc[1], RMul(category_scores[weights[i][1]], weights[i][2])),
                   RAdd(acc[2], weights[i][2])>>
            ELSE acc,
            category_scores, i + 1)

final_of(acc) == IF RLt(Rat(0), acc[2]) THEN RDiv(acc[1], acc[2]) ELSE Rat(100)

calculate_weighted_final_score_NoWeight(category_scores) ==
    final_of(weigh_NoWeight(<<Rat(0), Rat(0)>>, category_scores, 1))

calculate_weighted_final_score_NonZeroOnly(category_scores) ==
    final_of(weigh_NonZeroOnly(<<Rat(0), Rat(0)>>, category_scores, 1))

calculate_weighted_final_score(category_scores) ==
    final_of(weigh(<<Rat(0), Rat(0)>>, category_scores, 1))

(***************************************************************************)
(* calculate_score                                                         *)
(***************************************************************************)
calculate_score(issues, file_count, total_lines) ==
    IF Len(issues) = 0
    THEN [total_score |-> Rat(100),
          category_scores |-> EmptyMap,
          file_count |-> file_count,
          total_lines |-> total_lines,
          issue_density |-> Rat(0),
          severity_distribution |-> [nuclear |-> 0, spicy |-> 0, mild |-> 0],
          quality_level |-> "Excellent"]
    ELSE LET category_scores == calculate_normalized_category_scores(issues, total_lines)
             total_score == calculate_weighted_final_score(category_scores)
         IN  [total_score |-> total_score,
              category_scores |-> category_scores,
              file_count |-> file_count,
              total_lines |-> total_lines,
              issue_density |-> IF total_lines > 0
                                THEN RMul(RDiv(Rat(Len(issues)), Rat(total_lines)), Rat(1000))
                                ELSE Rat(0),
              severity_distribution |-> calculate_severity_distribution(issues),
              quality_level |-> from_score(total_score)]

(***************************************************************************)
(* Strings (src/rules/duplication.rs).  A string is a sequence of          *)
(* characters; a character is a one-letter string, or the name of a        *)
(* character outside ASCII.                                                *)
(***************************************************************************)
\* Characters whose UTF-8 encoding takes three bytes.
WideChars == {"U+4F60", "U+597D"}

UpperCase == <<"A", "B", "C", "D", "E", "F", "G", "H", "I", "J", "K", "L", "M",
               "N", "O", "P", "Q", "R", "S", "T", "U", "V", "W", "X", "Y", "Z">>

LowerCase == <<"a", "b", "c", "d", "e", "f", "g", "h", "i", "j", "k", "l", "m",
               "n", "o", "p", "q", "r", "s", "t", "u", "v", "w", "x", "y", "z">>

\* char::is_whitespace
is_whitespace(c) == c \in {" ", "\t"}

\* char::to_lowercase
char_to_lowercase(c) ==
    IF \E i \in DOMAIN UpperCase : UpperCase[i] = c
    THEN LowerCase[CHOOSE i \in DOMAIN UpperCase : UpperCase[i] = c]
    ELSE c

\* str::len: the length in bytes, one for a character of ASCII and three for
\* a wide one
str_len(s) == Len(s) + 2 * Cardinality({i \in DOMAIN s : s[i] \in WideChars})

\* the number of characters
chars_count(s) == Len(s)

\* str::trim
RECURSIVE trim_start(_)
trim_start(s) ==
    IF s # <<>> /\ is_whitespace(Head(s)) THEN trim_start(Tail(s)) ELSE s

RECURSIVE trim_end(_)
trim_end(s) ==
    IF s # <<>> /\ is_whitespace(s[Len(s)]) THEN trim_end(SubSeq(s, 1, Len(s) - 1)) ELSE s

trim(s) == trim_end(trim_start(s))

starts_with(s, pat) == Len(s) >= Len(pat) /\ SubSeq(s, 1, Len(pat)) = pat

\* str::replace(char::is_whitespace, "")
remove_whitespace(s) == SelectSeq(s, LAMBDA c : ~is_whitespace(c))

\* str::replace(pat, to): the matches from left to right, not overlapping
RECURSIVE replace(_, _, _)
replace(s, pat, to) ==
    IF Len(s) < Len(pat) THEN s
    ELSE IF SubSeq(s, 1, Len(pat)) = pat
    THEN to \o replace(SubSeq(s, Len(pat) + 1, Len(s)), pat, to)
    ELSE <<Head(s)>> \o replace(Tail(s), pat, to)

\* str::to_lowercase
to_lowercase(s) == [i \in DOMAIN s |-> char_to_lowercase(s[i])]

\* chars().take(n)
take(s, n) == SubSeq(s, 1, IF Len(s) < n THEN Len(s) ELSE n)

(***************************************************************************)
(* normalize_line, is_simple_statement, generate_block_signature           *)
(***************************************************************************)
normalize_line(line) ==
    to_lowercase(
        replace(
            replace(remove_whitespace(trim(line)), <<"l", "e", "t">>, <<"V", "A", "R">>),
            <<"m", "u", "t">>, <<>>))

is_simple_statement(line) ==
    trim(line) \in {<<"{">>, <<"}">>, <<";">>, <<"(">>, <<")">>, <<"[">>, <<"]">>}

\* generate_block_signature over the whole serialization, the take(100) dropped
generate_block_signature_NoTake(block) ==
    to_lowercase(remove_whitespace(block))

SignatureLen == 100

generate_block_signature(block) ==
    to_lowercase(take(remove_whitespace(block), SignatureLen))

(***************************************************************************)
(* DuplicationVisitor                                                      *)
(***************************************************************************)
\* HashMap<String, Vec<usize>>: entry(key).or_default().push(v)
MapPush(m, key, v) ==
    IF key \in DOMAIN m
    THEN [m EXCEPT ![key] = Append(@, v)]
    ELSE [k \in DOMAIN m \cup {key} |-> IF k = key THEN <<v>> ELSE m[k]]

\* The orders in which a HashMap with key set S can be iterated.
Orders(S) ==
    {o \in [1..Cardinality(S) -> S] : \A i, j \in DOMAIN o : i # j => o[i] # o[j]}

MinLineLen == 10

\* the lines detect_line_duplications does not count
skipped_line(trimmed) ==
    \/ trimmed = <<>>
    \/ starts_with(trimmed, <<"/", "/">>)
    \/ starts_with(trimmed, <<"/", "*">>)
    \/ str_len(trimmed) < MinLineLen
    \/ is_simple_statement(trimmed)

\* detect_line_duplications, first loop, from line k on
RECURSIVE collect_line_hashes(_, _, _)
collect_line_hashes(line_hashes, lines, k) ==
    IF k > Len(lines) THEN line_hashes
    ELSE collect_line_hashes(
            IF skipped_line(trim(lines[k])) THEN line_hashes
            ELSE MapPush(line_hashes, normalize_line(trim(lines[k])), k),
            lines, k + 1)

LineMessages == 5

BlockMessages == 4

\* the thresholds compared with > instead of >=
line_severity_Strict(n) ==
    IF n > 5 THEN "Nuclear" ELSE IF n > 4 THEN "Spicy" ELSE "Mild"

line_severity(n) ==
    IF n >= 5 THEN "Nuclear" ELSE IF n >= 4 THEN "Spicy" ELSE "Mild"

\* the finding placed at the last line of its group
line_issue_LastLine(file_path, line_numbers, n_issues) ==
    [file_path |-> file_path,
     line |-> line_numbers[Len(line_numbers)],
     column |-> 1,
     rule_name |-> "code-duplication",
     message |-> [of |-> "line", template |-> n_issues % LineMessages,
                  count |-> Len(line_numbers)],
     severity |-> line_severity(Len(line_numbers)),
     roast_level |-> "Sarcastic"]

\* the line picked by the rotating index, as the message is
line_issue_RotatingLine(file_path, line_numbers, n_issues) ==
    [file_path |-> file_path,
     line |-> line_numbers[(n_issues % Len(line_numbers)) + 1],
     column |-> 1,
     rule_name |-> "code-duplication",
     message |-> [of |-> "line", template |-> n_issues % LineMessages,
                  count |-> Len(line_numbers)],
     severity |-> line_severity(Len(line_numbers)),
     roast_level |-> "Sarcastic"]

line_issue(file_path, line_numbers, n_issues) ==
    [file_path |-> file_path,
     line |-> line_numbers[1],
     column |-> 1,
     rule_name |-> "code-duplication",
     message |-> [of |-> "line", template |-> n_issues % LineMessages,
                  count |-> Len(line_numbers)],
     severity |-> line_severity(Len(line_numbers)),
     roast_level |-> "Sarcastic"]

MinDuplicateLines == 3

\* detect_line_duplications, second loop: line_hashes.values() in order ord
RECURSIVE report_line_duplications(_, _, _, _, _)
report_line_duplications(found, file_path, line_hashes, ord, k) ==
    IF k > Len(ord) THEN found
    ELSE report_line_duplications(
            IF Len(line_hashes[ord[k]]) >= MinDuplicateLines
            THEN Append(found, line_issue(file_path, line_hashes[ord[k]], Len(found)))
            ELSE found,
            file_path, line_hashes, ord, k + 1)

MinBlockDebugLen == 20

MinBlockLen == 50

\* visit_block over the blocks of the tree in visiting order
visit_file(tree) == SelectSeq(tree, LAMBDA b : str_len(b) > MinBlockDebugLen)

\* every collected block grouped, whatever its length
RECURSIVE collect_block_signatures_NoMinLen(_, _, _)
collect_block_signatures_NoMinLen(block_signatures, code_blocks, i) ==
    IF i > Len(code_blocks) THEN block_signatures
    ELSE collect_block_signatures_NoMinLen(
            MapPush(block_signatures, generate_block_signature(code_blocks[i]), i - 1),
            code_blocks, i + 1)

\* detect_block_duplications, first loop, from block i on (indices from 0)
RECURSIVE collect_block_signatures(_, _, _)
collect_block_signatures(block_signatures, code_blocks, i) ==
    IF i > Len(code_blocks) THEN block_signatures
    ELSE collect_block_signatures(
            IF str_len(code_blocks[i]) > MinBlockLen
            THEN MapPush(block_signatures, generate_block_signature(code_blocks[i]), i - 1)
            ELSE block_signatures,
            code_blocks, i + 1)

block_issue(file_path, block_indices, n_issues) ==
    [file_path |-> file_path,
     line |-> 1,
     column |-> 1,
     rule_name |-> "code-duplication",
     message |-> [of |-> "block", template |-> n_issues % BlockMessages,
                  count |-> IF n_issues % BlockMessages = 1 THEN 0 ELSE Len(block_indices)],
     severity |-> "Spicy",
     roast_level |-> "Sarcastic"]

MinDuplicateBlocks == 2

\* detect_block_duplications, second loop: block_signatures in order ord
RECURSIVE report_block_duplications(_, _, _, _, _)
report_block_duplications(found, file_path, block_signatures, ord, k) ==
    IF k > Len(ord) THEN found
    ELSE report_block_duplications(
            IF Len(block_signatures[ord[k]]) >= MinDuplicateBlocks
            THEN Append(found, block_issue(file_path, block_signatures[ord[k]], Len(found)))
            ELSE found,
            file_path, block_signatures, ord, k + 1)

(***************************************************************************)
(* UnwrapAbuseRule, UnnecessaryCloneRule (src/rules/rust_specific.rs).     *)
(* The rules see the method calls of the syntax tree in visiting order,    *)
(* each by the name of its method.                                         *)
(***************************************************************************)
UnwrapMessages == 6

CloneMessages == 5

\* The UnwrapVisitor that the last check of UnwrapAbuseRule left behind when
\* it returned (NoVisitor before the first check).
VARIABLE unwrap_visitor

NoVisitor == [file_path |-> "", issues |-> <<>>, unwrap_count |-> 0]

\* the visitor of the check before, with its findings and its count, used again
UnwrapVisitor_Kept(file_path) ==
    IF unwrap_visitor = NoVisitor
    THEN [file_path |-> file_path, issues |-> <<>>, unwrap_count |-> 0]
    ELSE unwrap_visitor

\* UnwrapVisitor::new
UnwrapVisitor_new(file_path) ==
    [file_path |-> file_path, issues |-> <<>>, unwrap_count |-> 0]

\* the thresholds compared with >= instead of >
unwrap_visit_method_call_Early(v, file_path, method) ==
    IF method = "unwrap"
    THEN LET n == v.unwrap_count + 1
         IN  [file_path |-> v.file_path,
              issues |-> Append(v.issues,
                 [file_path |-> v.file_path,
                  line |-> 1,
                  column |-> 1,
                  rule_name |-> "unwrap-abuse",
                  message |-> [of |-> "unwrap",
                               template |-> Len(v.issues) % UnwrapMessages, count |-> 0],
                  severity |-> IF n >= 5 THEN "Nuclear" ELSE IF n >= 2 THEN "Spicy" ELSE "Mild",
                  roast_level |-> IF n > 5 THEN "Savage" ELSE "Sarcastic"]),
              unwrap_count |-> n]
    ELSE v

\* UnwrapVisitor::visit_expr_method_call
unwrap_visit_method_call(v, file_path, method) ==
    IF method = "unwrap"
    THEN LET n == v.unwrap_count + 1
         IN  [file_path |-> v.file_path,
              issues |-> Append(v.issues,
                 [file_path |-> v.file_path,
                  line |-> 1,
                  column |-> 1,
                  rule_name |-> "unwrap-abuse",
                  message |-> [of |-> "unwrap",
                               template |-> Len(v.issues) % UnwrapMessages, count |-> 0],
                  severity |-> IF n > 5 THEN "Nuclear" ELSE IF n > 2 THEN "Spicy" ELSE "Mild",
                  roast_level |-> IF n > 5 THEN "Savage" ELSE "Sarcastic"]),
              unwrap_count |-> n]
    ELSE v

RECURSIVE unwrap_visit_file(_, _, _, _)
unwrap_visit_file(v, file_path, calls, k) ==
    IF k > Len(calls) THEN v
    ELSE unwrap_visit_file(unwrap_visit_method_call(v, file_path, calls[k]),
                           file_path, calls, k + 1)

\* UnwrapAbuseRule::check
UnwrapAbuseRule_check(file_path, calls) ==
    unwrap_visit_file(UnwrapVisitor_new(file_path), file_path, calls, 1).issues

CloneVisitor_new == [issues |-> <<>>, clone_count |-> 0]

\* CloneVisitor::visit_expr_method_call
clone_visit_method_call(v, file_path, method) ==
    IF method = "clone"
    THEN LET n == v.clone_count + 1
         IN  [issues |-> IF n > 3
                         THEN Append(v.issues,
                                 [file_path |-> file_path,
                                  line |-> 1,
                                  column |-> 1,
                                  rule_name |-> "unnecessary-clone",
                                  message |-> [of |-> "clone",
                                               template |-> Len(v.issues) % CloneMessages,
                                               count |-> 0],
                                  severity |-> "Spicy",
                                  roast_level |-> "Sarcastic"])
                         ELSE v.issues,
              clone_count |-> n]
    ELSE v

RECURSIVE clone_visit_file(_, _, _, _)
clone_visit_file(v, file_path, calls, k) ==
    IF k > Len(calls) THEN v
    ELSE clone_visit_file(clone_visit_method_call(v, file_path, calls[k]),
                          file_path, calls, k + 1)

\* UnnecessaryCloneRule::check
UnnecessaryCloneRule_check(file_path, calls) ==
    clone_visit_file(CloneVisitor_new, file_path, calls, 1).issues

\* CodeDuplicationRule::check: the lists it can return, one per pair of
\* iteration orders of its two HashMaps
CodeDuplicationRule_check(file_path, blocks, lines) ==
    LET line_hashes == collect_line_hashes(EmptyMap, lines, 1)
        block_signatures == collect_block_signatures(EmptyMap, visit_file(blocks), 1)
    IN  {report_block_duplications(
             report_line_duplications(<<>>, file_path, line_hashes, line_order, 1),
             file_path, block_signatures, block_order, 1) :
         line_order \in Orders(DOMAIN line_hashes),
         block_order \in Orders(DOMAIN block_signatures)}

(***************************************************************************)
(* RuleEngine (src/rules/mod.rs)                                           *)
(***************************************************************************)
\* RuleEngine::new: the rules in the order of their registration
RuleEngine_new ==
    [rules |-> <<
      "TerribleNamingRule", "SingleLetterVariableRule",
      "MeaninglessNamingRule", "HungarianNotationRule",
      "AbbreviationAbuseRule", "PrintlnDebuggingRule", "PanicAbuseRule",
      "TodoCommentRule", "MagicNumberRule", "GodFunctionRule",
      "CommentedCodeRule", "DeadCodeRule", "StringAbuseRule", "VecAbuseRule",
      "IteratorAbuseRule", "MatchAbuseRule", "DeepNestingRule",
      "LongFunctionRule", "CodeDuplicationRule", "UnwrapAbuseRule",
      "UnnecessaryCloneRule", "ComplexClosureRule", "LifetimeAbuseRule",
      "TraitComplexityRule", "GenericAbuseRule", "ChannelAbuseRule",
      "AsyncAbuseRule", "DynTraitAbuseRule", "UnsafeAbuseRule",
      "FFIAbuseRule", "MacroAbuseRule", "ModuleComplexityRule",
      "PatternMatchingAbuseRule", "ReferenceAbuseRule", "BoxAbuseRule",
      "SliceAbuseRule", "FileStructureRule", "ImportChaosRule",
      "ModuleNestingRule">>]

\* rule.check(file_path, syntax_tree, content, lang): the lists the rule can
\* return.  A source unit is the path, the text (lines), the tree (blocks,
\* method_calls) and, for the rules that are not spelled out here, the list
\* each of them returns on this unit (others).
Rule_check(rule, unit) ==
    CASE rule = "CodeDuplicationRule" ->
             CodeDuplicationRule_check(unit.file_path, unit.blocks, unit.lines)
      [] rule = "UnwrapAbuseRule" ->
             {UnwrapAbuseRule_check(unit.file_path, unit.method_calls)}
      [] rule = "UnnecessaryCloneRule" ->
             {UnnecessaryCloneRule_check(unit.file_path, unit.method_calls)}
      [] OTHER ->
             {IF rule \in DOMAIN unit.others THEN unit.others[rule] ELSE <<>>}

\* the returned list replaces the findings so far
extend_Replace(issues_so_far, more) == more

\* Vec::extend
extend(issues_so_far, more) == issues_so_far \o more

\* The ways the rules from the k-th on can answer, each way the sequence of
\* the lists returned.
RECURSIVE check_rules(_, _, _)
check_rules(rules, unit, k) ==
    IF k > Len(rules) THEN {<<>>}
    ELSE LET first == Rule_check(rules[k], unit)
             others_after == check_rules(rules, unit, k + 1)
         IN  {<<out>> \o rest : out \in first, rest \in others_after}

\* RuleEngine::check_file, given what each rule returned
RECURSIVE check_file(_, _, _)
check_file(issues_so_far, outputs, k) ==
    IF k > Len(outputs) THEN issues_so_far
    ELSE check_file(extend(issues_so_far, outputs[k]), outputs, k + 1)

(***************************************************************************)
(* CodeAnalyzer (src/analyzer.rs).  A path and a pattern are strings.      *)
(***************************************************************************)
\* Regex::new(&regex_pattern).ok(): a pattern of letters, digits, '/', '_',
\* '.', '*' and '?' always compiles
regex_of_glob(pattern) ==
    replace(replace(replace(pattern, <<".">>, <<"\\", ".">>), <<"*">>, <<".", "*">>),
            <<"?">>, <<".">>)

\* Whether the regex from its k-th character on matches s from its j-th
\* character on (a prefix of it).  The regex holds only \. (a dot), .* (any
\* characters), . (any character) and characters that stand for themselves.
RECURSIVE regex_matches_at(_, _, _, _)
regex_matches_at(re, k, s, j) ==
    IF k > Len(re) THEN TRUE
    ELSE IF re[k] = "\\"
    THEN j <= Len(s) /\ s[j] = re[k + 1] /\ regex_matches_at(re, k + 2, s, j + 1)
    ELSE IF re[k] = "." /\ k < Len(re) /\ re[k + 1] = "*"
    THEN \E n \in j..(Len(s) + 1) : regex_matches_at(re, k + 2, s, n)
    ELSE IF re[k] = "."
    THEN j <= Len(s) /\ regex_matches_at(re, k + 1, s, j + 1)
    ELSE j <= Len(s) /\ s[j] = re[k] /\ regex_matches_at(re, k + 1, s, j + 1)

\* Regex::is_match: a match anywhere in s
is_match(re, s) == \E j \in 1..(Len(s) + 1) : regex_matches_at(re, 1, s, j)

\* CodeAnalyzer::new
CodeAnalyzer_new(exclude_patterns, lang) ==
    [rule_engine |-> RuleEngine_new,
     exclude_patterns |-> [i \in DOMAIN exclude_patterns |->
                              regex_of_glob(exclude_patterns[i])],
     lang |-> lang]

\* CodeAnalyzer::should_exclude
should_exclude(self, path) ==
    \E i \in DOMAIN self.exclude_patterns : is_match(self.exclude_patterns[i], path)

\* Path::file_name: what follows the last '/'
RECURSIVE file_name(_)
file_name(path) ==
    IF \E i \in DOMAIN path : path[i] = "/"
    THEN file_name(Tail(path))
    ELSE path

\* Path::extension: what follows the last '.' of the file name, if the name
\* has a '.' that is not its first character
extension(path) ==
    LET name == file_name(path)
        dots == {i \in DOMAIN name : name[i] = "." /\ i > 1}
    IN  IF dots = {} THEN <<"none">>
        ELSE <<"some", SubSeq(name, (CHOOSE i \in dots : \A d \in dots : d <= i) + 1,
                                Len(name))>>

\* fs::read_to_string fails, or parse_file fails, and the error is not
\* caught: the call returns nothing
analyze_file_Unrecovered(self, e) ==
    IF e.read = "err" \/ e.parse = "err" THEN {}
    ELSE {check_file(<<>>, outputs, 1) :
             outputs \in check_rules(self.rule_engine.rules, e.unit, 1)}

\* CodeAnalyzer::analyze_file: the lists it can return for a directory entry
\* e, which tells whether reading and parsing succeed and what is parsed
analyze_file(self, e) ==
    IF e.read = "err" THEN {<<>>}
    ELSE IF e.parse = "err" THEN {<<>>}
    ELSE {check_file(<<>>, outputs, 1) :
             outputs \in check_rules(self.rule_engine.rules, e.unit, 1)}

\* The filters of analyze_path without the one on the extension.
walk_filters_AnyExtension(self, e) ==
    /\ e.walk = "ok"
    /\ ~should_exclude(self, e.path)

\* The filters of analyze_path on an entry of the walk.
walk_filters(self, e) ==
    /\ e.walk = "ok"
    /\ ~should_exclude(self, e.path)
    /\ extension(e.path) = <<"some", <<"r", "s">>>>

(***************************************************************************)
(* HallOfShame (src/hall_of_shame.rs)                                      *)
(***************************************************************************)
\* HallOfShame::new
HallOfShame_new == [entries |-> <<>>, pattern_stats |-> EmptyMap, total_lines |-> 0]

\* *map.entry(key).or_insert(0) += n
MapAdd(m, key, n) ==
    [k \in DOMAIN m \cup {key} |->
        IF k = key THEN (IF key \in DOMAIN m THEN m[key] ELSE 0) + n ELSE m[k]]

MaxExampleFiles == 5

\* HallOfShame::update_pattern_stats, on the map of the patterns
update_pattern_stats(pattern_stats, rule_name, severity, file_path) ==
    LET stats == IF rule_name \in DOMAIN pattern_stats THEN pattern_stats[rule_name]
                 ELSE [rule_name |-> rule_name, count |-> 0,
                       severity_distribution |-> EmptyMap, example_files |-> <<>>]
        updated == [rule_name |-> stats.rule_name,
                    count |-> stats.count + 1,
                    severity_distribution |-> MapAdd(stats.severity_distribution, severity, 1),
                    example_files |->
                        IF /\ Len(stats.example_files) < MaxExampleFiles
                           /\ \A i \in DOMAIN stats.example_files :
                                 stats.example_files[i] # file_path
                        THEN Append(stats.example_files, file_path)
                        ELSE stats.example_files]
    IN  [k \in DOMAIN pattern_stats \cup {rule_name} |->
            IF k = rule_name THEN updated ELSE pattern_stats[k]]

\* add_file_analysis, the loop over the issues from the k-th on; acc holds
\* the three counters, worst_offenses and self.pattern_stats
RECURSIVE analyze_issues(_, _, _, _)
analyze_issues(acc, file_path, issues, k) ==
    IF k > Len(issues) THEN acc
    ELSE LET issue == issues[k]
         IN  analyze_issues(
                 [nuclear_count |-> acc.nuclear_count + (IF issue.severity = "Nuclear" THEN 1 ELSE 0),
                  spicy_count |-> acc.spicy_count + (IF issue.severity = "Spicy" THEN 1 ELSE 0),
                  mild_count |-> acc.mild_count + (IF issue.severity = "Mild" THEN 1 ELSE 0),
                  pattern_stats |-> update_pattern_stats(acc.pattern_stats, issue.rule_name,
                                                         issue.severity, file_path),
                  worst_offenses |->
                      IF issue.severity \in {"Nuclear", "Spicy"}
                      THEN Append(acc.worst_offenses, <<issue.rule_name, ": ", issue.message>>)
                      ELSE acc.worst_offenses],
                 file_path, issues, k + 1)

\* shame_score, an f64 that holds a whole number
shame_score_of(nuclear_count, spicy_count, mild_count) ==
    nuclear_count * 10 + spicy_count * 3 + mild_count * 1

\* HallOfShame::add_file_analysis: the HallOfShame after the call
add_file_analysis(self, file_path, issues, file_lines) ==
    IF issues = <<>>
    THEN [self EXCEPT !.total_lines = self.total_lines + file_lines]
    ELSE LET acc == analyze_issues(
                        [nuclear_count |-> 0, spicy_count |-> 0, mild_count |-> 0,
                         pattern_stats |-> self.pattern_stats, worst_offenses |-> <<>>],
                        file_path, issues, 1)
             new_entry == [file_path |-> file_path,
                           total_issues |-> Len(issues),
                           nuclear_issues |-> acc.nuclear_count,
                           spicy_issues |-> acc.spicy_count,
                           mild_issues |-> acc.mild_count,
                           shame_score |-> shame_score_of(acc.nuclear_count, acc.spicy_count,
                                                          acc.mild_count),
                           worst_offenses |-> acc.worst_offenses]
         IN  [entries |-> Append(self.entries, new_entry),
              pattern_stats |-> acc.pattern_stats,
              total_lines |-> self.total_lines + file_lines]

\* x put into the list sorted so far, behind every element that does not
\* come after it: the lowest score first
RECURSIVE insert_entry_Ascending(_, _)
insert_entry_Ascending(sorted, x) ==
    IF sorted = <<>> THEN <<x>>
    ELSE IF Head(sorted).shame_score <= x.shame_score
    THEN <<Head(sorted)>> \o insert_entry_Ascending(Tail(sorted), x)
    ELSE <<x>> \o sorted

\* sort_by(|a, b| b.shame_score.partial_cmp(&a.shame_score).unwrap()), a stable
\* sort: x put into the list sorted so far, behind every element that does
\* not come after it
RECURSIVE insert_entry(_, _)
insert_entry(sorted, x) ==
    IF sorted = <<>> THEN <<x>>
    ELSE IF Head(sorted).shame_score >= x.shame_score
    THEN <<Head(sorted)>> \o insert_entry(Tail(sorted), x)
    ELSE <<x>> \o sorted

RECURSIVE sort_entries(_, _)
sort_entries(entries, n) ==
    IF n = 0 THEN <<>> ELSE insert_entry(sort_entries(entries, n - 1), entries[n])

\* sort_by(|a, b| b.count.cmp(&a.count)), a stable sort
RECURSIVE insert_pattern(_, _)
insert_pattern(sorted, x) ==
    IF sorted = <<>> THEN <<x>>
    ELSE IF Head(sorted).count >= x.count
    THEN <<Head(sorted)>> \o insert_pattern(Tail(sorted), x)
    ELSE <<x>> \o sorted

RECURSIVE sort_patterns(_, _)
sort_patterns(patterns, n) ==
    IF n = 0 THEN <<>> ELSE insert_pattern(sort_patterns(patterns, n - 1), patterns[n])

\* str::contains
contains(name, pat) ==
    \E i \in 1..(Len(name) - Len(pat) + 1) : SubSeq(name, i, i + Len(pat) - 1) = pat

\* HallOfShame::categorize_rule
categorize_rule(rule_name) ==
    IF contains(rule_name, "naming") THEN "Naming Issues"
    ELSE IF \/ contains(rule_name, "complexity")
            \/ contains(rule_name, "nesting")
            \/ contains(rule_name, "function") THEN "Complexity Issues"
    ELSE IF \/ contains(rule_name, "unwrap")
            \/ contains(rule_name, "panic")
            \/ contains(rule_name, "string")
            \/ contains(rule_name, "clone") THEN "Rust-specific Issues"
    ELSE IF contains(rule_name, "println") \/ contains(rule_name, "todo")
    THEN "Student Code Issues"
    ELSE IF \/ contains(rule_name, "import")
            \/ contains(rule_name, "file")
            \/ contains(rule_name, "module") THEN "Structure Issues"
    ELSE IF \/ contains(rule_name, "magic")
            \/ contains(rule_name, "dead")
            \/ contains(rule_name, "comment") THEN "Code Smells"
    ELSE "Other Issues"

\* generate_shame_report, the loop over most_common_patterns from the k-th on
RECURSIVE categorize_patterns(_, _, _)
categorize_patterns(shame_categories, patterns, k) ==
    IF k > Len(patterns) THEN shame_categories
    ELSE categorize_patterns(
            MapAdd(shame_categories, categorize_rule(patterns[k].rule_name), patterns[k].count),
            patterns, k + 1)

RECURSIVE sum_total_issues(_, _)
sum_total_issues(entries, n) ==
    IF n = 0 THEN 0 ELSE sum_total_issues(entries, n - 1) + entries[n].total_issues

ShameTop == 10

\* total_issues summed over the files of the list returned, not over all
generate_shame_report_TopOnly(self, values_order) ==
    LET sorted_entries == sort_entries(self.entries, Len(self.entries))
        hall_of_shame == take(sorted_entries, ShameTop)
        values == [i \in DOMAIN values_order |-> self.pattern_stats[values_order[i]]]
        most_common_patterns == sort_patterns(values, Len(values))
        total_issues == sum_total_issues(hall_of_shame, Len(hall_of_shame))
    IN  [total_files_analyzed |-> Len(self.entries),
         total_issues |-> total_issues,
         garbage_density |-> IF self.total_lines > 0
                             THEN RMul(RDiv(Rat(total_issues), Rat(self.total_lines)), Rat(1000))
                             ELSE Rat(0),
         most_common_patterns |-> most_common_patterns,
         hall_of_shame |-> hall_of_shame,
         shame_categories |-> categorize_patterns(EmptyMap, most_common_patterns, 1)]

\* HallOfShame::generate_shame_report, with pattern_stats.values() iterated
\* in the order values_order of its keys
generate_shame_report(self, values_order) ==
    LET sorted_entries == sort_entries(self.entries, Len(self.entries))
        hall_of_shame == take(sorted_entries, ShameTop)
        values == [i \in DOMAIN values_order |-> self.pattern_stats[values_order[i]]]
        most_common_patterns == sort_patterns(values, Len(values))
        total_issues == sum_total_issues(self.entries, Len(self.entries))
    IN  [total_files_analyzed |-> Len(self.entries),
         total_issues |-> total_issues,
         garbage_density |-> IF self.total_lines > 0
                             THEN RMul(RDiv(Rat(total_issues), Rat(self.total_lines)), Rat(1000))
                             ELSE Rat(0),
         most_common_patterns |-> most_common_patterns,
         hall_of_shame |-> hall_of_shame,
         shame_categories |-> categorize_patterns(EmptyMap, most_common_patterns, 1)]

(***************************************************************************)
(* State.                                                                  *)
(*   scorer       the CodeScorer the calls are made on                     *)
(*   issues, file_count, total_lines                                       *)
(*                the arguments of the current calculate_score call        *)
(*   result       the CodeQualityScore it returned                         *)
(*   prev         arguments and result of some earlier call (history)      *)
(*   issue_count, category, score                                          *)
(*                arguments and result of a calculate_category_score call  *)
(*                (with total_lines)                                       *)
(*   pc           position of the caller                                   *)
(*   content, syntax_tree                                                  *)
(*                the file handed to a rule's check: its lines, and the    *)
(*                Debug serializations of its blocks in visiting order     *)
(*   visitor      the DuplicationVisitor of the check                      *)
(*   found        the findings the check returned                          *)
(*   analyzer     the CodeAnalyzer (rule engine, exclude patterns, lang)   *)
(*   method_calls, others                                                  *)
(*                the rest of the file handed to check_file: the method    *)
(*                calls of its tree in visiting order, and what the rules  *)
(*                that are not spelled out return on it                    *)
(*   rule_outputs what each rule returned in the check_file call           *)
(*   file_issues  the findings check_file returned                         *)
(*   dir          the entries under the path given to analyze_path, in     *)
(*                walking order                                            *)
(*   entry        the number of entries walked so far                      *)
(*   all_issues   the issues vector of analyze_path                        *)
(*   returned     what analyze_file returned for each entry analyzed       *)
(*   earlier      some earlier check_file call on the same engine: its     *)
(*                file and what it returned (history)                      *)
(*   lines_in, canonical                                                   *)
(*                two lines given to normalize_line, and their canonical   *)
(*                forms                                                    *)
(*   classified   the scores handed to from_score, each with its level     *)
(*   hall         the HallOfShame                                          *)
(*   report       the ProjectShameStats generate_shame_report returned     *)
(*   passed       the add_file_analysis calls made so far: how many issues *)
(*                they passed in and how many of them had issues (history) *)
(***************************************************************************)
VARIABLES scorer, issues, file_count, total_lines, result, prev,
          issue_count, category, score, pc,
          content, syntax_tree, visitor, found,
          analyzer, method_calls, others, rule_outputs, file_issues,
          dir, entry, all_issues, returned,
          earlier, lines_in, canonical, classified, hall, report, passed

vars == <<scorer, issues, file_count, total_lines, result, prev,
          issue_count, category, score, pc,
          content, syntax_tree, visitor, found,
          analyzer, method_calls, others, rule_outputs, file_issues,
          dir, entry, all_issues, returned,
          unwrap_visitor, earlier, lines_in, canonical, classified, hall, report, passed>>

\* The state of the scorer's callers and the state of a rule's check.
scoreVars == <<scorer, issues, file_count, total_lines, result, prev,
               issue_count, category, score>>

dupVars == <<content, syntax_tree, visitor, found>>

engineVars == <<analyzer, method_calls, others, rule_outputs, file_issues>>

walkVars == <<dir, entry, all_issues, returned>>

ruleVars == <<unwrap_visitor, earlier>>

normVars == <<lines_in, canonical>>

levelVars == <<classified>>

shameVars == <<hall, report, passed>>

restVars == <<ruleVars, normVars, levelVars, shameVars>>

NoEarlier == [called |-> FALSE, unit |-> <<>>, file_issues |-> <<>>]

\* The value of report before generate_shame_report returned.
NoReport ==
    [total_files_analyzed |-> 0, total_issues |-> 0, garbage_density |-> Rat(0),
     most_common_patterns |-> <<>>, hall_of_shame |-> <<>>,
     shame_categories |-> EmptyMap]

NoPassed == [issues |-> 0, files_with_issues |-> 0, calls |-> 0]

\* No check_file call made, no line normalized, no level looked up, no
\* hall of shame in use.
NoRest ==
    /\ unwrap_visitor = NoVisitor
    /\ earlier = NoEarlier
    /\ lines_in = <<>>
    /\ canonical = <<>>
    /\ classified = <<>>
    /\ hall = HallOfShame_new
    /\ report = NoReport
    /\ passed = NoPassed

\* No rule engine is running.
NoEngine ==
    /\ analyzer = CodeAnalyzer_new(<<>>, "zh-CN")
    /\ method_calls = <<>>
    /\ others = EmptyMap
    /\ rule_outputs = <<>>
    /\ file_issues = <<>>

\* No path is being analyzed.
NoWalk ==
    /\ dir = <<>>
    /\ entry = 0
    /\ all_issues = <<>>
    /\ returned = <<>>

\* DuplicationVisitor::new: no block collected, no line hashed
DuplicationVisitor_new == [code_blocks |-> <<>>, line_hashes |-> EmptyMap]

\* No file is being checked.
NoCheck ==
    /\ content = <<>>
    /\ syntax_tree = <<>>
    /\ visitor = DuplicationVisitor_new
    /\ found = <<>>


(***************************************************************************)
(* Inputs.                                                                 *)
(***************************************************************************)
\* Rule names of the findings handed to the scorer: two of one category,
\* three of other categories, and one that no category lists.
InputRules == {"terrible-naming", "single-letter-variable", "long-function",
               "code-duplication", "unsafe-abuse", "magic-number"}

CodeIssue == [rule_name : InputRules, severity : Severity]

SeqsUpTo(S, n) == UNION {[1..k -> S] : k \in 0..n}

FileCounts == 0..MaxFiles

LineCounts == {0, 1, 100, 1000}

CategoryLineCounts == (0..MaxSmallLines) \cup {100 * k : k \in 1..MaxHundreds}

\* Findings of the repeated-call exploration.
RepeatIssues ==
    {[rule_name |-> "terrible-naming", severity |-> "Mild"],
     [rule_name |-> "code-duplication", severity |-> "Spicy"],
     [rule_name |-> "magic-number", severity |-> "Nuclear"]}

RepeatFileCounts == {1}

RepeatLineCounts == {100}

\* The value of result before any call returned.
NoScore ==
    [total_score |-> Rat(0), category_scores |-> EmptyMap, file_count |-> 0,
     total_lines |-> 0, issue_density |-> Rat(0),
     severity_distribution |-> [nuclear |-> 0, spicy |-> 0, mild |-> 0],
     quality_level |-> "Excellent"]

NoCall == [called |-> FALSE, issues |-> <<>>, file_count |-> 0, total_lines |-> 0,
           result |-> NoScore]

\* No score is being computed.
NoScoring ==
    /\ scorer = CodeScorer_new
    /\ issues = <<>>
    /\ file_count = 0
    /\ total_lines = 0
    /\ result = NoScore
    /\ prev = NoCall
    /\ issue_count = 0
    /\ category = "naming"
    /\ score = Rat(0)

(***************************************************************************)
(* Spec: one calculate_score call on every input.                          *)
(***************************************************************************)
Init ==
    /\ scorer = CodeScorer_new
    /\ issues \in SeqsUpTo(CodeIssue, MaxIssues)
    /\ file_count \in FileCounts
    /\ total_lines \in LineCounts
    /\ result = NoScore
    /\ prev = NoCall
    /\ issue_count = 0
    /\ category = "naming"
    /\ score = Rat(0)
    /\ pc = "input"
    /\ NoCheck
    /\ NoEngine
    /\ NoWalk
    /\ NoRest

\* scorer.calculate_score(&issues, file_count, total_lines); &self is shared,
\* no field of the scorer is read or written.
CalculateScore ==
    /\ pc = "input"
    /\ result' = calculate_score(issues, file_count, total_lines)
    /\ pc' = "scored"
    /\ UNCHANGED <<scorer, issues, file_count, total_lines, prev,
                   issue_count, category, score>>
    /\ UNCHANGED dupVars
    /\ UNCHANGED <<engineVars, walkVars>>
    /\ UNCHANGED restVars

Next == CalculateScore

Spec == Init /\ [][Next]_vars

(***************************************************************************)
(* SpecCategory: calculate_category_score on every count, size, category.  *)
(***************************************************************************)
InitCategory ==
    /\ scorer = CodeScorer_new
    /\ issues = <<>>
    /\ file_count = 0
    /\ total_lines \in CategoryLineCounts
    /\ result = NoScore
    /\ prev = NoCall
    /\ issue_count \in 0..MaxCount
    /\ category \in CategoryNames
    /\ score = Rat(0)
    /\ pc = "category_input"
    /\ NoCheck
    /\ NoEngine
    /\ NoWalk
    /\ NoRest

\* self.calculate_category_score(count, total_lines, category_name)
CategoryScore ==
    /\ pc = "category_input"
    /\ score' = calculate_category_score(issue_count, total_lines, category)
    /\ pc' = "category_scored"
    /\ UNCHANGED <<scorer, issues, file_count, total_lines, result, prev,
                   issue_count, category>>
    /\ UNCHANGED dupVars
    /\ UNCHANGED <<engineVars, walkVars>>
    /\ UNCHANGED restVars

\* The same category scored again with one more finding in it.
CategoryScoreOneMore ==
    /\ pc = "category_scored"
    /\ issue_count < MaxCount + 1
    /\ issue_count' = issue_count + 1
    /\ score' = calculate_category_score(issue_count + 1, total_lines, category)
    /\ UNCHANGED <<scorer, issues, file_count, total_lines, result, prev, category, pc>>
    /\ UNCHANGED dupVars
    /\ UNCHANGED <<engineVars, walkVars>>
    /\ UNCHANGED restVars

NextCategory == CategoryScore \/ CategoryScoreOneMore

SpecCategory == InitCategory /\ [][NextCategory]_vars

(***************************************************************************)
(* SpecRepeat: any sequence of calculate_score calls on one scorer.        *)
(***************************************************************************)
InitRepeat ==
    /\ scorer = CodeScorer_new
    /\ issues = <<>>
    /\ file_count = 0
    /\ total_lines = 0
    /\ result = NoScore
    /\ prev = NoCall
    /\ issue_count = 0
    /\ category = "naming"
    /\ score = Rat(0)
    /\ pc = "idle"
    /\ NoCheck
    /\ NoEngine
    /\ NoWalk
    /\ NoRest

CalculateScoreAgain ==
    \E is \in SeqsUpTo(RepeatIssues, MaxRepeatIssues),
       fc \in RepeatFileCounts, tl \in RepeatLineCounts :
        /\ issues' = is
        /\ file_count' = fc
        /\ total_lines' = tl
        /\ result' = calculate_score(is, fc, tl)
        /\ prev' \in IF pc = "scored"
                      THEN {prev, [called |-> TRUE, issues |-> issues,
                                   file_count |-> file_count,
                                   total_lines |-> total_lines, result |-> result]}
                      ELSE {prev}
        /\ pc' = "scored"
        /\ UNCHANGED <<scorer, issue_count, category, score>>
        /\ UNCHANGED dupVars
        /\ UNCHANGED <<engineVars, walkVars>>
        /\ UNCHANGED restVars

NextRepeat == CalculateScoreAgain

SpecRepeat == InitRepeat /\ [][NextRepeat]_vars

(***************************************************************************)
(* SpecDup: CodeDuplicationRule::check on one file.                        *)
(***************************************************************************)
\* let x = foo(1);
LineA ==
    <<"l", "e", "t", " ", "x", " ", "=", " ", "f", "o", "o", "(", "1", ")",
      ";">>

\* the same statement, indented by a tab, spaced differently, with mut
LineA_Spaced ==
    <<"\t", "l", "e", "t", " ", " ", "m", "u", "t", " ", "x", "=", "f", "o",
      "o", "(", " ", "1", " ", ")", ";">>

\* bar(a, b, c);
LineB ==
    <<"b", "a", "r", "(", "a", ",", " ", "b", ",", " ", "c", ")", ";">>

\* f("..."); with two three-byte characters: 8 characters, 12 bytes
LineWide ==
    <<"f", "(", "\"", "U+4F60", "U+597D", "\"", ")", ";">>

\* x = 1;
LineShort ==
    <<"x", " ", "=", " ", "1", ";">>

\* // let x = foo(1);
LineComment ==
    <<"/", "/", " ", "l", "e", "t", " ", "x", " ", "=", " ", "f", "o", "o",
      "(", "1", ")", ";">>

\* }
LineBrace ==
    <<"}">>

\* fn main() {
LineFn ==
    <<"f", "n", " ", "m", "a", "i", "n", "(", ")", " ", "{">>

\* fn f() {
LineFnShort ==
    <<"f", "n", " ", "f", "(", ")", " ", "{">>

\* if a {
LineIf ==
    <<"i", "f", " ", "a", " ", "{">>

\* g(1);
LineCall ==
    <<"g", "(", "1", ")", ";">>

\* fn f() { if a { g(1); } if a { g(1); } }
LineOneLineFn ==
    <<"f", "n", " ", "f", "(", ")", " ", "{", " ", "i", "f", " ", "a", " ",
      "{", " ", "g", "(", "1", ")", ";", " ", "}", " ", "i", "f", " ", "a",
      " ", "{", " ", "g", "(", "1", ")", ";", " ", "}", " ", "}">>

\* the start of the Debug form of a syn::Block
BlockOpen ==
    <<"B", "l", "o", "c", "k", " ", "{", " ", "b", "r", "a", "c", "e", "_",
      "t", "o", "k", "e", "n", ":", " ", "B", "r", "a", "c", "e", ",", " ",
      "s", "t", "m", "t", "s", ":", " ", "[">>

\* its end
BlockClose ==
    <<"]", " ", "}">>

\* statements in Debug form
StmtCallF ==
    <<"E", "x", "p", "r", "(", "C", "a", "l", "l", "(", "f", ")", ")", ",",
      " ">>

StmtCallF_Upper ==
    <<"E", "x", "p", "r", "(", "C", "a", "l", "l", "(", "F", ")", ")", ",",
      " ">>

StmtLit1 ==
    <<"E", "x", "p", "r", "(", "L", "i", "t", "(", "1", ")", ")", ",", " ">>

StmtLit2 ==
    <<"E", "x", "p", "r", "(", "L", "i", "t", "(", "2", ")", ")", ",", " ">>

StmtLit3 ==
    <<"E", "x", "p", "r", "(", "L", "i", "t", "(", "3", ")", ")", ",", " ">>

MaxCopies == 6

MaxCopiesB == 4

MaxWideCopies == 3

MaxShortCopies == 10

MaxBlockCopies == 2

RECURSIVE Rep(_, _)
Rep(s, n) == IF n = 0 THEN <<>> ELSE s \o Rep(s, n - 1)

\* n copies of LineA, every second one in its spaced form
RECURSIVE CopiesOfA(_)
CopiesOfA(n) ==
    IF n = 0 THEN <<>>
    ELSE Append(CopiesOfA(n - 1), IF n % 2 = 0 THEN LineA_Spaced ELSE LineA)

Copies(line, n) == [i \in 1..n |-> line]

\* The four kinds of line in turn, as long as copies remain.
RECURSIVE RoundRobin(_, _, _, _, _)
RoundRobin(a, b, w, s, i) ==
    IF i > a /\ i > b /\ i > w /\ i > s THEN <<>>
    ELSE (IF i <= a THEN <<CopiesOfA(i)[i]>> ELSE <<>>)
         \o (IF i <= b THEN <<LineB>> ELSE <<>>)
         \o (IF i <= w THEN <<LineWide>> ELSE <<>>)
         \o (IF i <= s THEN <<LineShort>> ELSE <<>>)
         \o RoundRobin(a, b, w, s, i + 1)

\* A file of a, b, w, s copies of the lines A, B, Wide, Short.
PatternFile(a, b, w, s, layout) ==
    IF layout = "grouped"
    THEN CopiesOfA(a) \o Copies(LineB, b) \o Copies(LineWide, w) \o Copies(LineShort, s)
    ELSE <<LineComment, LineFn>> \o RoundRobin(a, b, w, s, 1) \o <<LineBrace, <<>>>>

PatternFiles ==
    {PatternFile(a, b, w, s, layout) :
        a \in 0..MaxCopies, b \in 0..MaxCopiesB, w \in 0..MaxWideCopies,
        s \in {0, MaxShortCopies}, layout \in {"grouped", "mixed"}}

\* Blocks in Debug form: an empty one (39 bytes), two that differ in the case
\* of one name, two long ones that differ after their 100th non-blank
\* character, and one that differs from all of them early.
BlockEmpty == BlockOpen \o BlockClose

BlockF == BlockOpen \o StmtCallF \o StmtLit1 \o BlockClose

BlockF_Upper == BlockOpen \o StmtCallF_Upper \o StmtLit1 \o BlockClose

BlockLong2 == BlockOpen \o Rep(StmtLit1, 6) \o StmtLit2 \o BlockClose

BlockLong3 == BlockOpen \o Rep(StmtLit1, 6) \o StmtLit3 \o BlockClose

BlockOther == BlockOpen \o StmtLit3 \o StmtCallF \o BlockClose

\* f, l, e blocks of the kinds F, Long, Empty (every second one the variant)
\* and, with o, one Other.
BlockList(f, l, e, o) ==
    [i \in 1..f |-> IF i % 2 = 0 THEN BlockF_Upper ELSE BlockF]
    \o [i \in 1..l |-> IF i % 2 = 0 THEN BlockLong3 ELSE BlockLong2]
    \o [i \in 1..e |-> BlockEmpty]
    \o (IF o THEN <<BlockOther>> ELSE <<>>)

BlockLists ==
    {BlockList(f, l, e, o) :
        f \in 0..MaxBlockCopies, l \in 0..MaxBlockCopies, e \in 0..MaxBlockCopies,
        o \in BOOLEAN}

\* Files that hold blocks: a function on one line, a function whose lines
\* are all short, and a function that repeats a line.
BlockFiles ==
    {<<LineOneLineFn>>,
     <<LineFnShort, LineIf, LineCall, LineBrace, LineIf, LineCall, LineBrace,
       LineBrace>>,
     <<LineFn, LineA, LineA, LineA, LineBrace>>}

\* A file without a line of code has no block.
HasCode(lines) ==
    \E i \in DOMAIN lines :
        /\ trim(lines[i]) # <<>>
        /\ ~starts_with(trim(lines[i]), <<"/", "/">>)

FilePath == "src/lib.rs"

InitDup ==
    /\ NoScoring
    /\ \/ /\ content \in PatternFiles
          /\ syntax_tree \in {<<>>, <<BlockF, BlockF>>}
       \/ /\ content \in BlockFiles
          /\ syntax_tree \in BlockLists
    /\ syntax_tree # <<>> => HasCode(content)
    /\ visitor = DuplicationVisitor_new
    /\ found = <<>>
    /\ NoEngine
    /\ NoWalk
    /\ NoRest
    /\ pc = "file"

\* CodeDuplicationRule::check: a new visitor, visit_file, find_duplications
\* (detect_line_duplications, then detect_block_duplications).  Both HashMaps
\* are iterated in an order the program does not control.
Check ==
    /\ pc = "file"
    /\ LET code_blocks == visit_file(syntax_tree)
           line_hashes == collect_line_hashes(EmptyMap, content, 1)
           block_signatures == collect_block_signatures(EmptyMap, code_blocks, 1)
       IN  \E line_order \in Orders(DOMAIN line_hashes),
              block_order \in Orders(DOMAIN block_signatures) :
               /\ visitor' = [code_blocks |-> code_blocks, line_hashes |-> line_hashes]
               /\ found' = report_block_duplications(
                               report_line_duplications(<<>>, FilePath, line_hashes,
                                                        line_order, 1),
                               FilePath, block_signatures, block_order, 1)
    /\ pc' = "checked"
    /\ UNCHANGED <<content, syntax_tree>>
    /\ UNCHANGED <<scoreVars, engineVars, walkVars>>
    /\ UNCHANGED restVars

NextDup == Check

SpecDup == InitDup /\ [][NextDup]_vars

(***************************************************************************)
(* SpecEngine: RuleEngine::check_file on one parsed file.                  *)
(***************************************************************************)
MaxUnwraps == 7

MaxClones == 4

MaxOtherFindings == 2

\* u calls of unwrap, a call of len, c calls of clone
CallList(u, c) == Copies("unwrap", u) \o <<"len">> \o Copies("clone", c)

CallLists == {CallList(u, c) : u \in 0..MaxUnwraps, c \in 0..MaxClones}

\* Rule::name of the rules whose check is an input here
OtherRuleNames ==
    [r \in {"TerribleNamingRule", "ModuleNestingRule"} |->
        IF r = "TerribleNamingRule" THEN "terrible-naming" ELSE "module-nesting"]

\* n findings of a rule, numbered by their line
OtherFindings(rule, n) ==
    [j \in 1..n |->
        [file_path |-> FilePath, line |-> j, column |-> 1,
         rule_name |-> OtherRuleNames[rule],
         message |-> [of |-> "other", template |-> j - 1, count |-> 0],
         severity |-> "Mild", roast_level |-> "Gentle"]]

OtherOutputs ==
    {[r \in DOMAIN OtherRuleNames |->
         OtherFindings(r, IF r = "TerribleNamingRule" THEN n ELSE m)] :
     n \in 0..MaxOtherFindings, m \in 0..MaxOtherFindings}

\* Text and blocks of the files given to the engine.
EngineFiles ==
    {[lines |-> <<LineFn, LineA, LineA, LineA, LineBrace>>, blocks |-> <<>>],
     [lines |-> <<LineFn, LineA, LineA, LineA, LineBrace>>, blocks |-> <<BlockF, BlockF>>],
     [lines |-> PatternFile(3, 3, 0, 0, "mixed"),
      blocks |-> <<BlockF, BlockF_Upper, BlockLong2, BlockLong3>>]}

\* The source unit that content, syntax_tree, method_calls and others hold.
Unit ==
    [file_path |-> FilePath, lines |-> content, blocks |-> syntax_tree,
     method_calls |-> method_calls, others |-> others]

InitEngine ==
    /\ NoScoring
    /\ \E f \in EngineFiles : content = f.lines /\ syntax_tree = f.blocks
    /\ visitor = DuplicationVisitor_new
    /\ found = <<>>
    /\ analyzer = CodeAnalyzer_new(<<>>, "zh-CN")
    /\ method_calls \in CallLists
    /\ others \in OtherOutputs
    /\ rule_outputs = <<>>
    /\ file_issues = <<>>
    /\ NoWalk
    /\ NoRest
    /\ pc = "parsed"

\* self.rule_engine.check_file(file_path, &syntax_tree, &content, &self.lang)
CheckFile ==
    /\ pc = "parsed"
    /\ \E outputs \in check_rules(analyzer.rule_engine.rules, Unit, 1) :
          /\ rule_outputs' = outputs
          /\ file_issues' = check_file(<<>>, outputs, 1)
    /\ pc' = "file_checked"
    /\ unwrap_visitor' = unwrap_visit_file(UnwrapVisitor_new(FilePath), FilePath,
                                           method_calls, 1)
    /\ UNCHANGED <<analyzer, method_calls, others>>
    /\ UNCHANGED <<scoreVars, dupVars, walkVars>>
    /\ UNCHANGED <<earlier, normVars, levelVars, shameVars>>

NextEngine == CheckFile

SpecEngine == InitEngine /\ [][NextEngine]_vars

(***************************************************************************)
(* SpecEngineRepeat: any sequence of check_file calls on one RuleEngine.   *)
(***************************************************************************)
MaxRepeatUnwraps == 3

RepeatFiles ==
    {[lines |-> <<LineFn, LineA, LineA, LineA, LineBrace>>, blocks |-> <<>>],
     [lines |-> <<LineFn, LineA, LineA, LineA, LineBrace>>, blocks |-> <<BlockF, BlockF>>]}

RepeatCallLists == {CallList(u, 0) : u \in 0..MaxRepeatUnwraps}

RepeatOthers ==
    {[r \in DOMAIN OtherRuleNames |->
         OtherFindings(r, IF r = "TerribleNamingRule" THEN n ELSE 0)] : n \in 0..1}

InitEngineRepeat ==
    /\ NoScoring
    /\ NoCheck
    /\ NoEngine
    /\ NoWalk
    /\ NoRest
    /\ pc = "engine_idle"

\* check_file on the next file, the engine being the same.  The visitors of
\* the rules are made in each check: none is kept in the rule.
CheckFileAgain ==
    \E f \in RepeatFiles, calls \in RepeatCallLists, o \in RepeatOthers :
        \E outputs \in check_rules(analyzer.rule_engine.rules,
                                   [file_path |-> FilePath, lines |-> f.lines,
                                    blocks |-> f.blocks, method_calls |-> calls,
                                    others |-> o], 1) :
            /\ content' = f.lines
            /\ syntax_tree' = f.blocks
            /\ method_calls' = calls
            /\ others' = o
            /\ rule_outputs' = outputs
            /\ file_issues' = check_file(<<>>, outputs, 1)
            /\ unwrap_visitor' = unwrap_visit_file(UnwrapVisitor_new(FilePath), FilePath,
                                                   calls, 1)
            /\ earlier' \in IF pc = "file_checked"
                            THEN {earlier, [called |-> TRUE, unit |-> Unit,
                                            file_issues |-> file_issues]}
                            ELSE {earlier}
            /\ pc' = "file_checked"
            /\ UNCHANGED <<analyzer, visitor, found>>
            /\ UNCHANGED <<scoreVars, walkVars, normVars, levelVars, shameVars>>

NextEngineRepeat == CheckFileAgain

SpecEngineRepeat == InitEngineRepeat /\ [][NextEngineRepeat]_vars

(***************************************************************************)
(* SpecAnalyze: CodeAnalyzer::analyze_path on a file or a directory.       *)
(***************************************************************************)
MaxDirEntries == 3

NoOthers == [r \in DOMAIN OtherRuleNames |-> <<>>]

EntryAt(path, walk, read, parse, lines, blocks, calls) ==
    [path |-> path, walk |-> walk, read |-> read, parse |-> parse,
     unit |-> [file_path |-> path, lines |-> lines, blocks |-> blocks,
               method_calls |-> calls, others |-> NoOthers]]

\* src/a.rs: three calls of unwrap
EntryUnwraps ==
    EntryAt(<<"s", "r", "c", "/", "a", ".", "r", "s">>,
            "ok", "ok", "ok", <<LineFn, LineBrace>>, <<>>, CallList(3, 0))

\* src/b.rs: a line three times and two equal blocks
EntryDuplicates ==
    EntryAt(<<"s", "r", "c", "/", "b", ".", "r", "s">>,
            "ok", "ok", "ok", <<LineFn, LineA, LineA, LineA, LineBrace>>,
            <<BlockF, BlockF>>, <<>>)

\* src/c.rs: cannot be read
EntryUnreadable ==
    EntryAt(<<"s", "r", "c", "/", "c", ".", "r", "s">>,
            "ok", "err", "err", <<>>, <<>>, <<>>)

\* src/d.rs: three equal statements outside a function, not a Rust file
EntryUnparsable ==
    EntryAt(<<"s", "r", "c", "/", "d", ".", "r", "s">>,
            "ok", "ok", "err", <<LineA, LineA, LineA>>, <<>>, <<>>)

\* notes.txt: three equal lines, no Rust file
EntryText ==
    EntryAt(<<"n", "o", "t", "e", "s", ".", "t", "x", "t">>,
            "ok", "ok", "err", <<LineA, LineA, LineA>>, <<>>, <<>>)

\* old.rs.txt: Rust code with three calls of unwrap in a file that is no
\* Rust file by its name
EntryRustText ==
    EntryAt(<<"o", "l", "d", ".", "r", "s", ".", "t", "x", "t">>,
            "ok", "ok", "ok", <<LineFn, LineBrace>>, <<>>, CallList(3, 0))

\* src/e: an entry the walk cannot access
EntryWalkError ==
    EntryAt(<<"s", "r", "c", "/", "e">>,
            "err", "err", "err", <<>>, <<>>, <<>>)

Entries == {EntryUnwraps, EntryDuplicates, EntryUnreadable, EntryUnparsable,
            EntryText, EntryRustText, EntryWalkError}

\* The sequences of at most n different entries.
Walks(n) ==
    {w \in SeqsUpTo(Entries, n) : \A i, j \in DOMAIN w : i # j => w[i] # w[j]}

\* the exclude pattern src/b*
PatternB == <<"s", "r", "c", "/", "b", "*">>

\* What a path can be: nothing, a file, or a directory with its entries in
\* walking order.
Paths ==
    {[kind |-> "none", entries |-> <<>>]}
    \cup {[kind |-> "file", entries |-> <<e>>] : e \in {x \in Entries : x.walk = "ok"}}
    \cup {[kind |-> "dir", entries |-> w] : w \in Walks(MaxDirEntries)}

InitAnalyze ==
    /\ NoScoring
    /\ NoCheck
    /\ analyzer \in {CodeAnalyzer_new(<<>>, "zh-CN"), CodeAnalyzer_new(<<PatternB>>, "zh-CN")}
    /\ method_calls = <<>>
    /\ others = EmptyMap
    /\ rule_outputs = <<>>
    /\ file_issues = <<>>
    /\ dir \in Paths
    /\ entry = 0
    /\ all_issues = <<>>
    /\ returned = <<>>
    /\ NoRest
    /\ pc = "walking"

\* analyze_path, one entry: the filters, then issues.extend(self.analyze_file(..))
AnalyzeEntry ==
    /\ pc = "walking"
    /\ entry < Len(dir.entries)
    /\ LET e == dir.entries[entry + 1]
       IN  IF walk_filters(analyzer, e)
           THEN \E r \in analyze_file(analyzer, e) :
                   /\ all_issues' = extend(all_issues, r)
                   /\ returned' = Append(returned, [analyzed |-> TRUE, issues |-> r])
           ELSE /\ all_issues' = all_issues
                /\ returned' = Append(returned, [analyzed |-> FALSE, issues |-> <<>>])
    /\ entry' = entry + 1
    /\ UNCHANGED <<dir, pc>>
    /\ UNCHANGED <<scoreVars, dupVars, engineVars>>
    /\ UNCHANGED restVars

\* analyze_path returns issues
ReturnIssues ==
    /\ pc = "walking"
    /\ entry = Len(dir.entries)
    /\ pc' = "returned"
    /\ UNCHANGED <<dir, entry, all_issues, returned>>
    /\ UNCHANGED <<scoreVars, dupVars, engineVars>>
    /\ UNCHANGED restVars

NextAnalyze == AnalyzeEntry \/ ReturnIssues

SpecAnalyze == InitAnalyze /\ [][NextAnalyze]_vars

(***************************************************************************)
(* SpecNormalize: the first loop of detect_line_duplications on two lines. *)
(***************************************************************************)
MaxEditPos == 8

\* let total = count;
LineLet ==
    <<"l", "e", "t", " ", "t", "o", "t", "a", "l", " ", "=", " ", "c", "o",
      "u", "n", "t", ";">>

\* let mut total = 0;
LineLetMut ==
    <<"l", "e", "t", " ", "m", "u", "t", " ", "t", "o", "t", "a", "l", " ",
      "=", " ", "0", ";">>

\* mutex.lock(a);
LineMutex ==
    <<"m", "u", "t", "e", "x", ".", "l", "o", "c", "k", "(", "a", ")", ";">>

\* ex.lock(a);
LineEx ==
    <<"e", "x", ".", "l", "o", "c", "k", "(", "a", ")", ";">>

\* complete(a);
LineComplete ==
    <<"c", "o", "m", "p", "l", "e", "t", "e", "(", "a", ")", ";">>

NormalizeBases == {LineLet, LineLetMut, LineMutex, LineEx, LineComplete, LineB}

char_to_uppercase(c) ==
    IF \E i \in DOMAIN LowerCase : LowerCase[i] = c
    THEN UpperCase[CHOOSE i \in DOMAIN LowerCase : LowerCase[i] = c]
    ELSE c

\* line with its k-th character in upper case
UpperAt(line, k) == [line EXCEPT ![k] = char_to_uppercase(@)]

\* line with a space before its k-th character
SpaceAt(line, k) == SubSeq(line, 1, k - 1) \o <<" ">> \o SubSeq(line, k, Len(line))

EditPositions(line) == {k \in DOMAIN line : k <= MaxEditPos}

\* A line, the line with one letter in upper case, with one more space, or
\* wholly in upper case.
VariantsOf(line) ==
    {line, [i \in DOMAIN line |-> char_to_uppercase(line[i])]}
    \cup {UpperAt(line, k) : k \in EditPositions(line)}
    \cup {SpaceAt(line, k) : k \in EditPositions(line)}

LinePairs ==
    UNION {{<<b, v>> : v \in VariantsOf(b)} : b \in NormalizeBases}
    \cup (NormalizeBases \X NormalizeBases)

InitNormalize ==
    /\ NoScoring
    /\ NoCheck
    /\ NoEngine
    /\ NoWalk
    /\ unwrap_visitor = NoVisitor
    /\ earlier = NoEarlier
    /\ lines_in \in LinePairs
    /\ canonical = <<>>
    /\ classified = <<>>
    /\ hall = HallOfShame_new
    /\ report = NoReport
    /\ passed = NoPassed
    /\ pc = "lines"

\* detect_line_duplications, first loop: every line is skipped, or counted
\* under the key normalize_line(trimmed)
NormalizeLines ==
    /\ pc = "lines"
    /\ canonical' = [i \in DOMAIN lines_in |->
                        IF skipped_line(trim(lines_in[i])) THEN <<"skipped">>
                        ELSE <<"counted", normalize_line(trim(lines_in[i]))>>]
    /\ pc' = "hashed"
    /\ UNCHANGED lines_in
    /\ UNCHANGED <<scoreVars, dupVars, engineVars, walkVars>>
    /\ UNCHANGED <<ruleVars, levelVars, shameVars>>

NextNormalize == NormalizeLines

SpecNormalize == InitNormalize /\ [][NextNormalize]_vars

(***************************************************************************)
(* SpecLevel: QualityLevel::from_score, called twice.                      *)
(***************************************************************************)
\* Score range: 0-100
MaxScore == 100

\* The whole scores, and scores halfway between two of them next to the
\* ends of the ranges.
Scores ==
    {Rat(n) : n \in 0..MaxScore}
    \cup {Frac(2 * n + 1, 2) : n \in {0, 19, 20, 40, 60, 80, 99}}

InitLevel ==
    /\ NoScoring
    /\ NoCheck
    /\ NoEngine
    /\ NoWalk
    /\ NoRest
    /\ pc = "unscored"

\* QualityLevel::from_score(s)
FromScore ==
    /\ pc = "unscored"
    /\ \E s \in Scores :
          classified' = Append(classified, [score |-> s, quality_level |-> from_score(s)])
    /\ pc' = "scored"
    /\ UNCHANGED <<scoreVars, dupVars, engineVars, walkVars>>
    /\ UNCHANGED <<ruleVars, normVars, shameVars>>

\* QualityLevel::from_score(s), a second call
FromScoreAgain ==
    /\ pc = "scored"
    /\ \E s \in Scores :
          classified' = Append(classified, [score |-> s, quality_level |-> from_score(s)])
    /\ pc' = "scored_twice"
    /\ UNCHANGED <<scoreVars, dupVars, engineVars, walkVars>>
    /\ UNCHANGED <<ruleVars, normVars, shameVars>>

NextLevel == FromScore \/ FromScoreAgain

SpecLevel == InitLevel /\ [][NextLevel]_vars

(***************************************************************************)
(* SpecShame: add_file_analysis for one file after the other, then         *)
(* generate_shame_report.                                                  *)
(***************************************************************************)
MaxAdds == 12

ShameIssue(rule_name, severity) ==
    [rule_name |-> rule_name, severity |-> severity, message |-> "message"]

\* What the analysis of a file can be: no issue in 10 lines, one Mild
\* issue in 100 lines, or a Nuclear, a Spicy and a Mild one in 50 lines.
CleanFile == [issues |-> <<>>, file_lines |-> 10]

MildFile == [issues |-> <<ShameIssue("terrible-naming", "Mild")>>, file_lines |-> 100]

HeavyFile ==
    [issues |-> <<ShameIssue("unwrap-abuse", "Nuclear"), ShameIssue("deep-nesting", "Spicy"),
                  ShameIssue("unwrap-abuse", "Mild")>>,
     file_lines |-> 50]

\* Files without issues come before the first file with issues.
Analyses(self) ==
    {MildFile, HeavyFile} \cup (IF self.entries = <<>> THEN {CleanFile} ELSE {})

\* The path of the k-th file.
PathAt(k) == <<"src", "file", k>>

InitShame ==
    /\ NoScoring
    /\ NoCheck
    /\ NoEngine
    /\ NoWalk
    /\ NoRest
    /\ pc = "adding"

\* hall.add_file_analysis(file_path, &issues, file_lines)
AddFileAnalysis ==
    /\ pc = "adding"
    /\ passed.calls < MaxAdds
    /\ \E a \in Analyses(hall) :
          /\ hall' = add_file_analysis(hall, PathAt(passed.calls + 1), a.issues, a.file_lines)
          /\ passed' = [issues |-> passed.issues + Len(a.issues),
                        files_with_issues |-> passed.files_with_issues
                                                + (IF a.issues # <<>> THEN 1 ELSE 0),
                        calls |-> passed.calls + 1]
    /\ UNCHANGED <<report, pc>>
    /\ UNCHANGED <<scoreVars, dupVars, engineVars, walkVars>>
    /\ UNCHANGED <<ruleVars, normVars, levelVars>>

\* hall.generate_shame_report(): &self, the HallOfShame is left as it is
GenerateShameReport ==
    /\ pc = "adding"
    /\ \E values_order \in Orders(DOMAIN hall.pattern_stats) :
          report' = generate_shame_report(hall, values_order)
    /\ pc' = "reported"
    /\ UNCHANGED <<hall, passed>>
    /\ UNCHANGED <<scoreVars, dupVars, engineVars, walkVars>>
    /\ UNCHANGED <<ruleVars, normVars, levelVars>>

NextShame == AddFileAnalysis \/ GenerateShameReport

SpecShame == InitShame /\ [][NextShame]_vars

(***************************************************************************)
(* Vocabulary of the properties.                                           *)
(***************************************************************************)
\* Number of findings of `is` whose rule is listed by category c.
CountOf(is, c) ==
    Cardinality({i \in DOMAIN is :
        \E j \in DOMAIN categories :
            categories[j].name = c /\ is[i].rule_name \in categories[j].rules})

WeightOf(c) == weights[CHOOSE i \in DOMAIN weights : weights[i][1] = c][2]

\* Sum of f[c] over the categories of set S.
RECURSIVE RSum(_, _)
RSum(f, S) ==
    IF S = {} THEN Rat(0)
    ELSE LET c == CHOOSE x \in S : TRUE
         IN  RAdd(f[c], RSum(f, S \ {c}))

ScoreOrZero(r, c) == IF c \in DOMAIN r.category_scores THEN r.category_scores[c] ELSE Rat(0)

SameMultiset(s, t) ==
    /\ Len(s) = Len(t)
    /\ \A x \in {s[i] : i \in DOMAIN s} \cup {t[i] : i \in DOMAIN t} :
          Cardinality({i \in DOMAIN s : s[i] = x}) = Cardinality({i \in DOMAIN t : t[i] = x})

SameScore(r1, r2) ==
    /\ r1.total_score = r2.total_score
    /\ r1.category_scores = r2.category_scores
    /\ r1.quality_level = r2.quality_level

(***************************************************************************)
(* C1.  An empty finding list with total_lines > 0 yields total_score 0    *)
(* and quality level Excellent.  The code returns total_score 100.         *)
(***************************************************************************)
C1_EmptyListScoresZero ==
    (pc = "scored" /\ Len(issues) = 0 /\ total_lines > 0)
        => (result.total_score = Rat(0) /\ result.quality_level = "Excellent")

(***************************************************************************)
(* C2.  A non-empty finding list with total_lines = 0 yields total_score   *)
(* 0, a score of 0 for every category and issue_density 0.                 *)
(***************************************************************************)
C2_ZeroLinesScoreZero ==
    (pc = "scored" /\ Len(issues) > 0 /\ total_lines = 0)
        => /\ result.total_score = Rat(0)
           /\ DOMAIN result.category_scores = CategoryNames
           /\ \A c \in CategoryNames : result.category_scores[c] = Rat(0)
           /\ result.issue_density = Rat(0)

C2_Witness ==
    /\ pc = "scored"
    /\ total_lines = 0
    /\ Len(issues) >= 2
    /\ \E c \in CategoryNames : CountOf(issues, c) >= 2

(***************************************************************************)
(* C3.  Every category score lies in [0, 90], for every category, count    *)
(* and total_lines, the branch above the poor threshold included.          *)
(***************************************************************************)
C3_CategoryScoreRange ==
    pc = "category_scored" => (RLe(Rat(0), score) /\ RLe(score, Rat(90)))

\* a density more than 15 above the poor threshold: 60 + 2 * excess is above 90
C3_Witness ==
    /\ pc = "category_scored"
    /\ total_lines > 0
    /\ RLt(RAdd(thresholds(category)[4], Rat(15)),
           issues_per_1k_lines(issue_count, total_lines))
    /\ score = Rat(90)

(***************************************************************************)
(* C4.  The total_score returned by calculate_score lies in [0, 100].      *)
(***************************************************************************)
C4_TotalScoreRange ==
    pc = "scored" => (RLe(Rat(0), result.total_score) /\ RLe(result.total_score, Rat(100)))

C4_Witness ==
    /\ pc = "scored"
    /\ total_lines > 0
    /\ Cardinality({c \in CategoryNames : CountOf(issues, c) > 0}) >= 2
    /\ RLt(Rat(0), result.total_score)

(***************************************************************************)
(* C5.  For fixed total_lines and category, one more finding of the        *)
(* category never lowers the category score.                               *)
(***************************************************************************)
C5_CategoryScoreMonotone ==
    [][(pc = "category_scored" /\ pc' = "category_scored"
            /\ issue_count' = issue_count + 1
            /\ total_lines' = total_lines /\ category' = category)
        => RLe(score, score')]_vars

\* a count only the one-more-finding step reaches, in the capped region
C5_Witness ==
    /\ pc = "category_scored"
    /\ total_lines > 0
    /\ issue_count > MaxCount
    /\ score = Rat(90)

(***************************************************************************)
(* C6.  calculate_score is a function of the multiset of findings: a call  *)
(* returns the same total_score, category_scores and quality_level as any  *)
(* earlier call on the same scorer whose finding list was a permutation of *)
(* its own (same file_count and total_lines), whatever calls were made in  *)
(* between; the scorer is the same after every call.                       *)
(***************************************************************************)
C6_PureOfMultiset ==
    pc = "scored" =>
        /\ scorer = CodeScorer_new
        /\ (prev.called /\ SameMultiset(prev.issues, issues)
              /\ prev.file_count = file_count /\ prev.total_lines = total_lines)
            => SameScore(prev.result, result)

C6_Witness ==
    /\ pc = "scored"
    /\ prev.called
    /\ prev.issues # issues
    /\ SameMultiset(prev.issues, issues)
    /\ \E c \in CategoryNames : CountOf(issues, c) > 0
    /\ \E i \in DOMAIN issues : ~IsMapped(issues[i].rule_name)
    /\ RLt(Rat(0), result.total_score)

(***************************************************************************)
(* C7.  As claimed: total_score is the sum of category_score * weight      *)
(* divided by the sum of the weights of the categories that have at least  *)
(* one finding.  The code divides by the sum of all seven weights.         *)
(***************************************************************************)
C7_DividesByPresentWeights ==
    (pc = "scored" /\ Len(issues) > 0 /\ \E c \in CategoryNames : CountOf(issues, c) > 0)
        => LET present == {c \in CategoryNames : CountOf(issues, c) > 0}
           IN  result.total_score =
                   RDiv(RSum([c \in CategoryNames |->
                                 RMul(ScoreOrZero(result, c), WeightOf(c))], present),
                        RSum([c \in CategoryNames |-> WeightOf(c)], present))

(***************************************************************************)
(* C7, amended.  For a non-empty finding list every one of the seven       *)
(* categories has a score, a category with no findings has score 0, and    *)
(* total_score is the sum of category_score * weight over all seven        *)
(* categories divided by the sum of all seven weights.                     *)
(***************************************************************************)
C7_DividesByAllWeights ==
    (pc = "scored" /\ Len(issues) > 0)
        => /\ DOMAIN result.category_scores = CategoryNames
           /\ \A c \in CategoryNames :
                 CountOf(issues, c) = 0 => result.category_scores[c] = Rat(0)
           /\ result.total_score =
                 RDiv(RSum([c \in CategoryNames |->
                               RMul(ScoreOrZero(result, c), WeightOf(c))], CategoryNames),
                      RSum([c \in CategoryNames |-> WeightOf(c)], CategoryNames))

C7_Witness ==
    /\ pc = "scored"
    /\ total_lines > 0
    /\ Cardinality({c \in CategoryNames : CountOf(issues, c) > 0}) = 2
    /\ RLt(Rat(0), result.total_score)
    /\ \E c \in CategoryNames : CountOf(issues, c) = 0

(***************************************************************************)
(* C8.  When exactly one category c has findings and total_lines > 0,      *)
(* total_score = category_score(c) * weight(c); for naming the weight is   *)
(* 0.25.                                                                   *)
(***************************************************************************)
C8_SingleCategoryScore ==
    \A c \in CategoryNames :
        (pc = "scored" /\ total_lines > 0 /\ CountOf(issues, c) > 0
            /\ \A d \in CategoryNames \ {c} : CountOf(issues, d) = 0)
        => /\ result.total_score = RMul(result.category_scores[c], WeightOf(c))
           /\ c = "naming" =>
                 result.total_score = RMul(result.category_scores[c], Frac(25, 100))

C8_Witness ==
    /\ pc = "scored"
    /\ total_lines > 0
    /\ Len(issues) >= 2
    /\ \A i \in DOMAIN issues :
          issues[i].rule_name \in {"terrible-naming", "single-letter-variable"}
    /\ RLt(Rat(0), result.category_scores["naming"])
    /\ RLt(result.total_score, result.category_scores["naming"])

(***************************************************************************)
(* C9.  As claimed: with total_lines = 1000 and 6 naming findings the      *)
(* naming score is strictly between 20 and 40.  The naming thresholds are  *)
(* (0, 2, 5, 10): density 6 is above the average threshold.                *)
(***************************************************************************)
C9_NamingSixBetween20And40 ==
    (pc = "category_scored" /\ category = "naming" /\ issue_count = 6 /\ total_lines = 1000)
        => (RLt(Rat(20), score) /\ RLt(score, Rat(40)))

(***************************************************************************)
(* C9, amended.  With total_lines = 1000 and 6 naming findings the naming  *)
(* score is 44, strictly between 40 and 60.                                *)
(***************************************************************************)
C9_NamingSixIs44 ==
    (pc = "category_scored" /\ category = "naming" /\ issue_count = 6 /\ total_lines = 1000)
        => (score = Rat(44) /\ RLt(Rat(40), score) /\ RLt(score, Rat(60)))

C9_Witness ==
    /\ pc = "category_scored"
    /\ category = "naming"
    /\ issue_count = 6
    /\ total_lines = 1000
    /\ issues_per_1k_lines(issue_count, total_lines) = Rat(6)

(***************************************************************************)
(* C10.  A finding whose rule maps to no category is excluded from the     *)
(* score: a call on F followed by u, u unmapped, returns the same          *)
(* total_score and category scores as an earlier call on F, the empty F    *)
(* included.  On the empty list the code returns 100 and no category       *)
(* scores.                                                                 *)
(***************************************************************************)
C10_UnmappedExcluded ==
    (pc = "scored" /\ prev.called
        /\ Len(issues) = Len(prev.issues) + 1
        /\ SubSeq(issues, 1, Len(prev.issues)) = prev.issues
        /\ ~IsMapped(issues[Len(issues)].rule_name)
        /\ prev.file_count = file_count /\ prev.total_lines = total_lines)
    => /\ result.total_score = prev.result.total_score
       /\ result.category_scores = prev.result.category_scores

(***************************************************************************)
(* C11.  In every result of calculate_score, quality_level is the bucket   *)
(* of total_score: Excellent for 0-20, Good for 21-40, Average for 41-60,  *)
(* Poor for 61-80, Terrible for 81-100.  The empty list returns 100 with   *)
(* Excellent.                                                              *)
(***************************************************************************)
C11_LevelIsBucketOfTotal ==
    pc = "scored" =>
        LET t == result.total_score
            In(lo, hi) == RLe(Rat(lo), t) /\ RLe(t, Rat(hi))
        IN  /\ In(0, 20) => result.quality_level = "Excellent"
            /\ In(21, 40) => result.quality_level = "Good"
            /\ In(41, 60) => result.quality_level = "Average"
            /\ In(61, 80) => result.quality_level = "Poor"
            /\ In(81, 100) => result.quality_level = "Terrible"

(***************************************************************************)
(* C12.  A non-empty finding list whose mapped findings all belong to one  *)
(* category never yields Terrible: total_score stays below 81.             *)
(***************************************************************************)
C12_OneCategoryNeverTerrible ==
    (pc = "scored" /\ Len(issues) > 0
        /\ Cardinality({c \in CategoryNames : CountOf(issues, c) > 0}) <= 1)
    => (result.quality_level # "Terrible" /\ RLt(result.total_score, Rat(81)))

\* one category alone, at the cap of 90
C12_Witness ==
    /\ pc = "scored"
    /\ Len(issues) >= 2
    /\ \E c \in CategoryNames :
          /\ CountOf(issues, c) = Len(issues)
          /\ result.category_scores[c] = Rat(90)
    /\ RLt(Rat(0), result.total_score)

(***************************************************************************)
(* Vocabulary of the duplication properties.                               *)
(***************************************************************************)
\* For every line of the file (1-based), whether the line-level detection
\* counts it, and its canonical form if it does.
CanonOf(lines) ==
    [i \in DOMAIN lines |->
        IF skipped_line(trim(lines[i])) THEN <<"skipped">>
        ELSE <<"counted", normalize_line(lines[i])>>]

CountedIn(canon) == {i \in DOMAIN canon : canon[i][1] = "counted"}

\* The counted lines with the canonical form of line i.
GroupIn(canon, i) == {j \in DOMAIN canon : canon[j] = canon[i]}

LineGroupsIn(canon) == {GroupIn(canon, i) : i \in CountedIn(canon)}

SetMin(S) == CHOOSE x \in S : \A y \in S : x <= y

\* Positions in found of the line-level and of the block-level findings.
LineFindings == {k \in DOMAIN found : found[k].message.of = "line"}

BlockFindings == {k \in DOMAIN found : found[k].message.of = "block"}

FindingsOfSeverity(sev) == Cardinality({k \in LineFindings : found[k].severity = sev})

(***************************************************************************)
(* C13: the line-level detection emits exactly one finding per group of    *)
(* counted lines with one canonical form and at least 3 members, and none  *)
(* for a smaller group; the finding is Mild for a group of 3, Spicy for a  *)
(* group of 4 and Nuclear for a group of 5 or more.                        *)
(***************************************************************************)
C13_OneFindingPerGroup ==
    pc = "checked" =>
        LET groups == LineGroupsIn(CanonOf(content))
            GroupsOfSize(P(_)) == Cardinality({g \in groups : P(Cardinality(g))})
        IN  /\ Cardinality(LineFindings) = GroupsOfSize(LAMBDA n : n >= 3)
            /\ FindingsOfSeverity("Mild") = GroupsOfSize(LAMBDA n : n = 3)
            /\ FindingsOfSeverity("Spicy") = GroupsOfSize(LAMBDA n : n = 4)
            /\ FindingsOfSeverity("Nuclear") = GroupsOfSize(LAMBDA n : n >= 5)

\* Groups of 3, 4 and 6 lines and one of a single line: three findings,
\* Mild, Spicy and Nuclear.
C13_Witness ==
    /\ pc = "checked"
    /\ Cardinality(LineFindings) = 3
    /\ {found[k].severity : k \in LineFindings} = {"Mild", "Spicy", "Nuclear"}
    /\ LET groups == LineGroupsIn(CanonOf(content))
       IN  /\ {Cardinality(g) : g \in groups} = {1, 3, 4, 6}
           /\ Cardinality(groups) = 4

(***************************************************************************)
(* C14: a line whose trimmed length is below 10 characters is never        *)
(* counted, and a file that holds only such lines has no line-level        *)
(* finding.                                                                *)
(***************************************************************************)
C14_ShortLinesNeverCounted ==
    pc = "checked" =>
        LET short == {i \in DOMAIN content : chars_count(trim(content[i])) < 10}
        IN  /\ \A key \in DOMAIN visitor.line_hashes :
                  \A n \in DOMAIN visitor.line_hashes[key] :
                      visitor.line_hashes[key][n] \notin short
            /\ short = DOMAIN content => LineFindings = {}

(***************************************************************************)
(* C15: every line-level finding is at the 1-based number of the first     *)
(* line of its group, whatever the order in which the groups are visited.  *)
(***************************************************************************)
C15_FindingAtFirstOccurrence ==
    pc = "checked" =>
        LET canon == CanonOf(content)
        IN  \A k \in LineFindings :
                /\ found[k].line \in CountedIn(canon)
                /\ found[k].line = SetMin(GroupIn(canon, found[k].line))
                /\ Cardinality(GroupIn(canon, found[k].line)) >= 3

\* Two groups reported in the order opposite to their order in the file,
\* neither starting at the first line, one with another line in between.
C15_Witness ==
    /\ pc = "checked"
    /\ Cardinality(LineFindings) >= 2
    /\ \E j, k \in LineFindings : j < k /\ found[j].line > found[k].line
    /\ \A k \in LineFindings : found[k].line > 1
    /\ LET canon == CanonOf(content)
       IN  \E k \in LineFindings :
               \E i \in GroupIn(canon, found[k].line) :
                   i > found[k].line /\ i - 1 \notin GroupIn(canon, found[k].line)

\* The blocks of the file (positions in visiting order) that are collected
\* and above the minimum serialized size.
SizedBlocks ==
    {i \in DOMAIN syntax_tree :
        str_len(syntax_tree[i]) > MinBlockDebugLen /\ str_len(syntax_tree[i]) > MinBlockLen}

SignatureGroups ==
    {{j \in SizedBlocks :
         generate_block_signature(syntax_tree[j]) = generate_block_signature(syntax_tree[i])} :
     i \in SizedBlocks}

\* The whole serialization of a block, whitespace-free and lower-cased.
NormalizedBlock(i) == to_lowercase(remove_whitespace(syntax_tree[i]))

(***************************************************************************)
(* C16: a file with fewer than 3 lines, or in which no line reaches the    *)
(* minimum length of 10 characters, yields no finding at all from          *)
(* CodeDuplicationRule::check, line-level or block-level.                  *)
(***************************************************************************)
C16_SmallFileNoFinding ==
    (/\ pc = "checked"
     /\ \/ Len(content) < 3
        \/ \A i \in DOMAIN content : chars_count(trim(content[i])) < 10)
    => found = <<>>

(***************************************************************************)
(* C17: the block-level detection emits exactly one finding per signature  *)
(* shared by at least 2 collected blocks above the minimum serialized      *)
(* size, each Spicy and at line 1; a signature of a single block and       *)
(* blocks at or below the minimum size give none; the line-level findings  *)
(* of the file change nothing of this.                                     *)
(***************************************************************************)
C17_OneFindingPerSignature ==
    pc = "checked" =>
        /\ Cardinality(BlockFindings)
               = Cardinality({g \in SignatureGroups : Cardinality(g) >= 2})
        /\ \A k \in BlockFindings : found[k].severity = "Spicy" /\ found[k].line = 1
        /\ LineFindings \cup BlockFindings = DOMAIN found

\* Two shared signatures, one signature of a single block, two equal blocks
\* below the minimum size, and a line-level finding in the same file.
C17_Witness ==
    /\ pc = "checked"
    /\ Cardinality(BlockFindings) = 2
    /\ LineFindings # {}
    /\ \E g \in SignatureGroups : Cardinality(g) = 1
    /\ \E i, j \in DOMAIN syntax_tree :
          /\ i < j
          /\ syntax_tree[i] = syntax_tree[j]
          /\ str_len(syntax_tree[i]) <= MinBlockLen

(***************************************************************************)
(* C18 as stated: a block-level finding is emitted only if at least two    *)
(* collected blocks have identical whitespace-free, lower-cased            *)
(* serializations.                                                         *)
(***************************************************************************)
C18_OnlyIdenticalBlocks ==
    (pc = "checked" /\ BlockFindings # {}) =>
        \E i, j \in DOMAIN visitor.code_blocks :
            /\ i < j
            /\ to_lowercase(remove_whitespace(visitor.code_blocks[i]))
                   = to_lowercase(remove_whitespace(visitor.code_blocks[j]))

(***************************************************************************)
(* C18 amended: a block-level finding is emitted if and only if at least   *)
(* two collected blocks above the minimum size agree on the lower-cased    *)
(* first 100 non-whitespace characters of their serializations; what       *)
(* follows these characters is not compared.                               *)
(***************************************************************************)
C18_OnlyEqualPrefixes ==
    pc = "checked" =>
        (BlockFindings # {}
            <=> \E i, j \in SizedBlocks :
                    /\ i < j
                    /\ take(NormalizedBlock(i), SignatureLen)
                           = take(NormalizedBlock(j), SignatureLen))

\* A finding for two blocks that differ after their 100th non-whitespace
\* character, in a file where no two blocks are the same.
C18_Witness ==
    /\ pc = "checked"
    /\ BlockFindings # {}
    /\ \A i, j \in DOMAIN syntax_tree :
          i < j => NormalizedBlock(i) # NormalizedBlock(j)
    /\ \E i, j \in SizedBlocks :
          /\ i < j
          /\ Len(NormalizedBlock(i)) > SignatureLen
          /\ take(NormalizedBlock(i), SignatureLen) = take(NormalizedBlock(j), SignatureLen)

(***************************************************************************)
(* Vocabulary of the engine properties.                                    *)
(***************************************************************************)
RECURSIVE SumLen(_, _)
SumLen(lists, n) == IF n = 0 THEN 0 ELSE Len(lists[n]) + SumLen(lists, n - 1)

\* Rule::name
RuleName(rule) ==
    CASE rule = "CodeDuplicationRule" -> "code-duplication"
      [] rule = "UnwrapAbuseRule" -> "unwrap-abuse"
      [] rule = "UnnecessaryCloneRule" -> "unnecessary-clone"
      [] rule \in DOMAIN OtherRuleNames -> OtherRuleNames[rule]
      [] OTHER -> "none"

(***************************************************************************)
(* C19: check_file returns the concatenation, in the order in which the    *)
(* rules were registered, of the lists the rules' checks returned: the     *)
(* j-th finding of the i-th rule stands, unchanged, right after all        *)
(* findings of the rules before it and the first j-1 of its own, and the   *)
(* length of the result is the sum of the lengths of the lists.            *)
(***************************************************************************)
C19_ConcatenationInOrder ==
    pc = "file_checked" =>
        LET rules == analyzer.rule_engine.rules
        IN  /\ Len(rule_outputs) = Len(rules)
            /\ \A i \in DOMAIN rules : rule_outputs[i] \in Rule_check(rules[i], Unit)
            /\ Len(file_issues) = SumLen(rule_outputs, Len(rule_outputs))
            /\ \A i \in DOMAIN rule_outputs :
                   \A j \in DOMAIN rule_outputs[i] :
                       file_issues[SumLen(rule_outputs, i - 1) + j] = rule_outputs[i][j]

\* Five rules return findings, two of them more than one, and the rules
\* registered first and last are among them.
C19_Witness ==
    /\ pc = "file_checked"
    /\ Cardinality({i \in DOMAIN rule_outputs : rule_outputs[i] # <<>>}) = 5
    /\ Len(rule_outputs[1]) = 2
    /\ Len(rule_outputs[Len(rule_outputs)]) = 1
    /\ Len(file_issues) >= 8
    /\ file_issues[1].rule_name = "terrible-naming"
    /\ file_issues[Len(file_issues)].rule_name = "module-nesting"
    /\ \E k \in DOMAIN file_issues :
          /\ k < Len(file_issues)
          /\ file_issues[k].rule_name = "code-duplication"
          /\ file_issues[k + 1].rule_name = "unwrap-abuse"

(***************************************************************************)
(* Vocabulary of the analyzer properties.                                  *)
(***************************************************************************)
\* The entries analyze_path hands to analyze_file.
Selected(e) ==
    /\ e.walk = "ok"
    /\ ~should_exclude(analyzer, e.path)
    /\ extension(e.path) = <<"some", <<"r", "s">>>>

Analyzable(e) == e.read = "ok" /\ e.parse = "ok"

\* The findings the rule engine can return for an entry.
EngineFindings(e) ==
    {check_file(<<>>, outputs, 1) :
        outputs \in check_rules(analyzer.rule_engine.rules, e.unit, 1)}

RECURSIVE ConcatIssues(_, _)
ConcatIssues(rets, n) ==
    IF n = 0 THEN <<>> ELSE ConcatIssues(rets, n - 1) \o rets[n].issues

(***************************************************************************)
(* C20: a file that cannot be read or cannot be parsed contributes an      *)
(* empty list and never stops the run: analyze_file returns for every      *)
(* entry handed to it, with the empty list for such a file, and what       *)
(* analyze_path returns holds, in walking order, the findings of every     *)
(* other file it analyzes, every entry of the directory having been        *)
(* walked.                                                                 *)
(***************************************************************************)
C20_FailuresContributeNothing ==
    /\ (pc = "walking" /\ entry < Len(dir.entries) /\ Selected(dir.entries[entry + 1]))
           => analyze_file(analyzer, dir.entries[entry + 1]) # {}
    /\ \A i \in DOMAIN returned :
          LET e == dir.entries[i]
          IN  /\ returned[i].analyzed = Selected(e)
              /\ (Selected(e) /\ ~Analyzable(e)) => returned[i].issues = <<>>
              /\ (Selected(e) /\ Analyzable(e)) => returned[i].issues \in EngineFindings(e)
    /\ all_issues = ConcatIssues(returned, Len(returned))
    /\ pc = "returned" => Len(returned) = Len(dir.entries)

\* A directory walked to the end: an unreadable or unparsable file first,
\* then a file with findings, and all these findings returned.
C20_Witness ==
    /\ pc = "returned"
    /\ dir.kind = "dir"
    /\ Len(dir.entries) >= 2
    /\ Selected(dir.entries[1]) /\ ~Analyzable(dir.entries[1])
    /\ \E i \in DOMAIN dir.entries :
          /\ i > 1
          /\ Selected(dir.entries[i]) /\ Analyzable(dir.entries[i])
          /\ returned[i].issues # <<>>
          /\ all_issues = returned[i].issues

(***************************************************************************)
(* C21: rules keep no state between invocations.  After any sequence of    *)
(* check_file calls on one engine, a file gets the findings it got in any  *)
(* earlier call on the same file, and the unwrap count starts at zero for  *)
(* every file: the file's unwrap findings are as many as its unwrap calls, *)
(* and the first of them is Mild with the first message.                   *)
(***************************************************************************)
C21_RulesKeepNoState ==
    pc = "file_checked" =>
        LET unwraps == {k \in DOMAIN method_calls : method_calls[k] = "unwrap"}
            unwrap_issues == SelectSeq(file_issues, LAMBDA i : i.rule_name = "unwrap-abuse")
        IN  /\ (earlier.called /\ earlier.unit = Unit) => file_issues = earlier.file_issues
            /\ Len(unwrap_issues) = Cardinality(unwraps)
            /\ unwrap_visitor.unwrap_count = Cardinality(unwraps)
            /\ unwrap_issues # <<>> =>
                   /\ unwrap_issues[1].severity = "Mild"
                   /\ unwrap_issues[1].message.template = 0

\* A file with three unwrap calls and other findings, checked for the second
\* time at least.
C21_Witness ==
    /\ pc = "file_checked"
    /\ earlier.called
    /\ earlier.unit = Unit
    /\ Cardinality({k \in DOMAIN method_calls : method_calls[k] = "unwrap"}) = 3
    /\ Len(file_issues) >= 4

(***************************************************************************)
(* C22: analyze_path analyzes exactly the files whose extension is rs and  *)
(* whose path matches no exclude pattern: every finding it returns is of   *)
(* such a file of the walk, the findings returned are those of these       *)
(* files in walking order, and a path with only excluded files or files    *)
(* of another extension yields the empty list.                             *)
(***************************************************************************)
RustPath(path) == extension(path) = <<"some", <<"r", "s">>>>

ExcludedPath(path) ==
    \E i \in DOMAIN analyzer.exclude_patterns :
        is_match(analyzer.exclude_patterns[i], path)

C22_OnlyRustFilesNotExcluded ==
    pc = "returned" =>
        LET wanted == {i \in DOMAIN dir.entries :
                          /\ dir.entries[i].walk = "ok"
                          /\ RustPath(dir.entries[i].path)
                          /\ ~ExcludedPath(dir.entries[i].path)}
        IN  /\ \A k \in DOMAIN all_issues :
                  \E i \in wanted : all_issues[k].file_path = dir.entries[i].path
            /\ \A i \in DOMAIN dir.entries : returned[i].analyzed <=> i \in wanted
            /\ \A i \in wanted :
                  Analyzable(dir.entries[i]) =>
                      returned[i].issues \in EngineFindings(dir.entries[i])
            /\ all_issues = ConcatIssues(returned, Len(returned))
            /\ wanted = {} => all_issues = <<>>

\* A directory with an excluded Rust file that has duplicates, Rust code in
\* a file of another extension and a Rust file with unwrap calls: only the
\* findings of the last are returned.
C22_Witness ==
    /\ pc = "returned"
    /\ dir.kind = "dir"
    /\ {dir.entries[i] : i \in DOMAIN dir.entries}
           = {EntryDuplicates, EntryRustText, EntryUnwraps}
    /\ ExcludedPath(EntryDuplicates.path)
    /\ Len(all_issues) = 3
    /\ \A k \in DOMAIN all_issues : all_issues[k].file_path = EntryUnwraps.path
(***************************************************************************)
(* Vocabulary of the canonicalization properties.                          *)
(***************************************************************************)
\* Both lines are counted, and counted under one key of line_hashes.
BothCounted == canonical[1][1] = "counted" /\ canonical[2][1] = "counted"

SameGroup == BothCounted /\ canonical[1] = canonical[2]

\* A line without its whitespace and in lower case.
Folded(line) == to_lowercase(remove_whitespace(line))

IsWordChar(c) ==
    \/ c = "_"
    \/ c \in {"0", "1", "2", "3", "4", "5", "6", "7", "8", "9"}
    \/ \E i \in DOMAIN LowerCase : c \in {LowerCase[i], UpperCase[i]}

\* Length of the word s starts with.
WordLen(s) ==
    CHOOSE n \in 1..Len(s) :
        /\ \A i \in 1..n : IsWordChar(s[i])
        /\ n = Len(s) \/ ~IsWordChar(s[n + 1])

\* s with the words let and mut, and nothing else, neutralized.
RECURSIVE KeywordsNeutralized(_)
KeywordsNeutralized(s) ==
    IF s = <<>> THEN <<>>
    ELSE IF IsWordChar(Head(s))
    THEN LET n == WordLen(s)
             w == SubSeq(s, 1, n)
         IN  (IF w = <<"l", "e", "t">> THEN <<"V", "A", "R">>
              ELSE IF w = <<"m", "u", "t">> THEN <<>>
              ELSE w) \o KeywordsNeutralized(SubSeq(s, n + 1, Len(s)))
    ELSE <<Head(s)>> \o KeywordsNeutralized(Tail(s))

(***************************************************************************)
(* C23: line canonicalization ignores whitespace and letter case: two      *)
(* counted lines that differ only in whitespace or in the case of letters  *)
(* have the same canonical form and fall into the same group.              *)
(***************************************************************************)
C23_WhitespaceAndCaseIgnored ==
    (pc = "hashed" /\ BothCounted /\ Folded(lines_in[1]) = Folded(lines_in[2]))
        => SameGroup

(***************************************************************************)
(* C24: keyword neutralization touches only the keywords let and mut       *)
(* themselves: two counted lines that still differ, whitespace and case    *)
(* aside, once the words let and mut are neutralized (as mutex.lock(a);    *)
(* and ex.lock(a); do) are never grouped.                                  *)
(***************************************************************************)
C24_OnlyKeywordsNeutralized ==
    (pc = "hashed" /\ BothCounted
        /\ Folded(KeywordsNeutralized(lines_in[1])) # Folded(KeywordsNeutralized(lines_in[2])))
        => ~SameGroup
(***************************************************************************)
(* C25: for a fixed file, the multiset of (line, severity) pairs of the    *)
(* duplication findings is the same for every iteration order of the two   *)
(* maps: it is the one of a fixed order.  The rotating message index       *)
(* changes the message only: every finding has the rule id                 *)
(* code-duplication, and the number of findings is the one of the fixed    *)
(* order.                                                                  *)
(***************************************************************************)
\* How many findings of a list have each (line, severity) pair.
LineSeverityPairs(list) ==
    LET pairs == {<<list[k].line, list[k].severity>> : k \in DOMAIN list}
    IN  [p \in pairs |->
            Cardinality({k \in DOMAIN list : <<list[k].line, list[k].severity>> = p})]

\* What find_duplications returns when both maps are iterated in one fixed
\* order.
FixedOrderFindings ==
    LET line_hashes == visitor.line_hashes
        block_signatures == collect_block_signatures(EmptyMap, visitor.code_blocks, 1)
        line_order == CHOOSE o \in Orders(DOMAIN line_hashes) : TRUE
        block_order == CHOOSE o \in Orders(DOMAIN block_signatures) : TRUE
    IN  report_block_duplications(
            report_line_duplications(<<>>, FilePath, line_hashes, line_order, 1),
            FilePath, block_signatures, block_order, 1)

C25_OrderChangesMessagesOnly ==
    pc = "checked" =>
        LET fixed == FixedOrderFindings
        IN  /\ LineSeverityPairs(found) = LineSeverityPairs(fixed)
            /\ Len(found) = Len(fixed)
            /\ \A k \in DOMAIN found : found[k].rule_name = "code-duplication"

\* Two groups of lines of different sizes and a group of blocks, reported
\* in another order than the fixed one, with other messages.
C25_Witness ==
    /\ pc = "checked"
    /\ Len(found) = 3
    /\ {found[1].severity, found[2].severity} = {"Nuclear", "Mild"}
    /\ found[3].message.of = "block"
    /\ LET fixed == FixedOrderFindings
       IN  /\ fixed[1].severity = found[2].severity
           /\ fixed[1].line = found[2].line
           /\ fixed[1].message # found[2].message
(***************************************************************************)
(* C26: from_score gives every score in [0,100] exactly one level, the     *)
(* level of the range (0-20, 21-40, 41-60, 61-80, 81-100) that holds the   *)
(* integer part of the score, so that a score between two ranges gets the  *)
(* level of the lower one; and a score that is not below another one gets  *)
(* a level that is not below the other's.                                  *)
(***************************************************************************)
LevelOrder == <<"Excellent", "Good", "Average", "Poor", "Terrible">>

LevelRank(l) == CHOOSE i \in DOMAIN LevelOrder : LevelOrder[i] = l

\* The level of the range that holds the whole number n.
RangeLevel(n) ==
    IF n \in 0..20 THEN "Excellent"
    ELSE IF n \in 21..40 THEN "Good"
    ELSE IF n \in 41..60 THEN "Average"
    ELSE IF n \in 61..80 THEN "Poor"
    ELSE "Terrible"

\* Largest whole number not above the score s >= 0.
IntegerPart(s) == CHOOSE n \in 0..(s[1]) : RLe(Rat(n), s) /\ RLt(s, Rat(n + 1))

InScoreRange(s) == RLe(Rat(0), s) /\ RLe(s, Rat(100))

C26_LevelOfIntegerPart ==
    \A i \in DOMAIN classified :
        LET c == classified[i]
        IN  InScoreRange(c.score) =>
                /\ c.quality_level \in QualityLevel
                /\ c.quality_level = RangeLevel(IntegerPart(c.score))
                /\ \A j \in DOMAIN classified :
                      (InScoreRange(classified[j].score) /\ RLe(c.score, classified[j].score))
                          => LevelRank(c.quality_level)
                                 <= LevelRank(classified[j].quality_level)

\* 20.5, between the ranges 0-20 and 21-40, is Excellent, and 21 is Good.
C26_Witness ==
    /\ pc = "scored_twice"
    /\ classified[1] = [score |-> Frac(41, 2), quality_level |-> "Excellent"]
    /\ classified[2] = [score |-> Rat(21), quality_level |-> "Good"]
(***************************************************************************)
(* C27: UnwrapAbuseRule emits one finding per unwrap call, in visiting     *)
(* order: with n unwrap calls in the file there are n findings, the k-th   *)
(* one Mild for k <= 2, Spicy for 3 <= k <= 5 and Nuclear for k > 5, so    *)
(* that the severities never decrease along the findings.                  *)
(***************************************************************************)
UnwrapFindings == SelectSeq(file_issues, LAMBDA i : i.rule_name = "unwrap-abuse")

SeverityRank(sev) == CASE sev = "Mild" -> 1 [] sev = "Spicy" -> 2 [] sev = "Nuclear" -> 3

C27_UnwrapSeverityEscalates ==
    pc = "file_checked" =>
        LET unwrap_issues == UnwrapFindings
            n == Cardinality({k \in DOMAIN method_calls : method_calls[k] = "unwrap"})
        IN  /\ Len(unwrap_issues) = n
            /\ \A k \in DOMAIN unwrap_issues :
                  /\ unwrap_issues[k].severity =
                         (IF k <= 2 THEN "Mild" ELSE IF k <= 5 THEN "Spicy" ELSE "Nuclear")
                  /\ unwrap_issues[k].message.template = (k - 1) % 6
                  /\ \A j \in 1..k :
                        SeverityRank(unwrap_issues[j].severity)
                            <= SeverityRank(unwrap_issues[k].severity)

\* Seven unwrap calls among other calls: seven findings, the last two Nuclear.
C27_Witness ==
    /\ pc = "file_checked"
    /\ Len(method_calls) > 7
    /\ Len(UnwrapFindings) = 7
    /\ UnwrapFindings[5].severity = "Spicy"
    /\ UnwrapFindings[6].severity = "Nuclear"
    /\ UnwrapFindings[7].severity = "Nuclear"
(***************************************************************************)
(* C28: for a non-empty list of findings, total_score and category_scores  *)
(* depend only on total_lines and on the findings per category: changing   *)
(* severities or file_count leaves total_score, category_scores and        *)
(* quality_level unchanged.  Every list, with every file_count, gets what  *)
(* the same list with all severities Mild and no file gets, so two inputs  *)
(* that differ in severities or file_count only get the same.              *)
(***************************************************************************)
\* What calculate_score bases the level on.
ScoreOf(r) ==
    [total_score |-> r.total_score, category_scores |-> r.category_scores,
     quality_level |-> r.quality_level]

\* The findings with their severities set to Mild.
AllMild(list) == [k \in DOMAIN list |-> [list[k] EXCEPT !.severity = "Mild"]]

C28_SeverityAndFilesIgnored ==
    (pc = "scored" /\ issues # <<>>) =>
        ScoreOf(calculate_score(AllMild(issues), 0, total_lines)) = ScoreOf(result)

\* Two Nuclear findings of one category in 100 lines, with a score above 0:
\* the score two Mild findings get.
C28_Witness ==
    /\ pc = "scored"
    /\ Len(issues) = 2
    /\ total_lines = 100
    /\ \A k \in DOMAIN issues : issues[k].severity = "Nuclear"
    /\ issues[1].rule_name = issues[2].rule_name
    /\ RLt(Rat(0), result.total_score)
    /\ result.severity_distribution.nuclear = 2
    /\ file_count > 0
    /\ result.file_count = file_count
(***************************************************************************)
(* C29: generate_shame_report conserves counts.  After any sequence of     *)
(* add_file_analysis calls, total_issues of the report is the number of    *)
(* issues passed in, the sum of count over the pattern statistics and the  *)
(* sum of the values of shame_categories; and total_issues of every entry  *)
(* is the sum of its nuclear, spicy and mild issues.                       *)
(***************************************************************************)
RECURSIVE SumCounts(_, _)
SumCounts(patterns, n) ==
    IF n = 0 THEN 0 ELSE SumCounts(patterns, n - 1) + patterns[n].count

RECURSIVE SumValues(_, _)
SumValues(m, keys) ==
    IF keys = {} THEN 0
    ELSE LET k == CHOOSE x \in keys : TRUE
         IN  m[k] + SumValues(m, keys \ {k})

C29_CountsConserved ==
    pc = "reported" =>
        /\ report.total_issues = passed.issues
        /\ report.total_issues
              = SumCounts(report.most_common_patterns, Len(report.most_common_patterns))
        /\ report.total_issues
              = SumValues(report.shame_categories, DOMAIN report.shame_categories)
        /\ \A i \in DOMAIN report.hall_of_shame :
              LET e == report.hall_of_shame[i]
              IN  e.total_issues = e.nuclear_issues + e.spicy_issues + e.mild_issues
        /\ \A i \in DOMAIN hall.entries :
              LET e == hall.entries[i]
              IN  e.total_issues = e.nuclear_issues + e.spicy_issues + e.mild_issues

\* Eleven files with issues after a file without, more issues than the ten
\* files of the list hold, in three categories.
C29_Witness ==
    /\ pc = "reported"
    /\ passed.calls > passed.files_with_issues
    /\ passed.files_with_issues = 11
    /\ Cardinality(DOMAIN report.shame_categories) = 3
    /\ report.total_issues
          > sum_total_issues(report.hall_of_shame, Len(report.hall_of_shame))
    /\ \E i \in DOMAIN report.hall_of_shame : report.hall_of_shame[i].total_issues = 3

(***************************************************************************)
(* C30: the hall_of_shame list of the report holds min(10, number of       *)
(* files added with at least one issue) entries, in non-increasing order   *)
(* of shame_score, which is 10 * nuclear + 3 * spicy + mild; and no entry  *)
(* left out has a strictly higher score than an entry of the list.         *)
(***************************************************************************)
Min(a, b) == IF a <= b THEN a ELSE b

\* How often the entry e occurs in the list.
Occurrences(list, e) == Cardinality({i \in DOMAIN list : list[i] = e})

C30_TopTenByShameScore ==
    pc = "reported" =>
        LET list == report.hall_of_shame
        IN  /\ Len(list) = Min(10, passed.files_with_issues)
            /\ \A i \in DOMAIN list :
                  /\ list[i].shame_score
                        = 10 * list[i].nuclear_issues + 3 * list[i].spicy_issues
                          + list[i].mild_issues
                  /\ i > 1 => list[i - 1].shame_score >= list[i].shame_score
                  /\ Occurrences(list, list[i]) <= Occurrences(hall.entries, list[i])
            /\ \A j \in DOMAIN hall.entries :
                  Occurrences(list, hall.entries[j]) < Occurrences(hall.entries, hall.entries[j])
                      => \A i \in DOMAIN list :
                            hall.entries[j].shame_score <= list[i].shame_score

\* Eleven files with issues, the first and the last with the lowest score
\* and others with a higher one: ten entries, the first file among them and
\* the last file left out.
C30_Witness ==
    /\ pc = "reported"
    /\ passed.files_with_issues = 11
    /\ Len(report.hall_of_shame) = 10
    /\ hall.entries[1].shame_score = 1
    /\ hall.entries[11].shame_score = 1
    /\ report.hall_of_shame[1].shame_score = 14
    /\ report.hall_of_shame[10] = hall.entries[1]
    /\ \A i \in DOMAIN report.hall_of_shame : report.hall_of_shame[i] # hall.entries[11]
====
